---- MODULE Spec2Model ----
(***************************************************************************)
(* Sortable NanoID: the Go Generator (sortable-nanoid-go/generator.go) and *)
(* the two TypeScript SortableIDGenerator classes of src/sortable-id.ts:   *)
(* the async one and the chrono-based one.                                 *)
(*                                                                         *)
(* A Go string is the sequence of its bytes and a JavaScript string the    *)
(* sequence of its UTF-16 units; the symbols of both are code points of    *)
(* the Basic Multilingual Plane, so a JavaScript unit is a symbol while a  *)
(* Go symbol (rune) takes one to three bytes.  Instants are counted from   *)
(* the generator's timestampStart: integer nanoseconds for Go              *)
(* (time.Duration), and for TypeScript milliseconds (Date.getTime()) as    *)
(* numbers of any size, written in groups of three decimal digits.  A      *)
(* JavaScript number (a timespan, maxTimestamp) is a double, written as    *)
(* the fraction it is exactly.                                             *)
(*                                                                         *)
(* Float64 arithmetic is computed as the hardware rounds it: Go's          *)
(* Duration.Seconds, Minutes, Hours and math.Pow, and JavaScript's         *)
(* quotients, products and sums.  Math.log and Math.pow are computed as V8 *)
(* computes them, statement by statement.  Dates are taken in UTC,         *)
(* TypeScript instants below 2^53, doubles normal or zero, and a           *)
(* timestampLevel outside LEVEL_TO_MS (a NaN timespan) is not among the    *)
(* configurations.                                                         *)
(***************************************************************************)
EXTENDS Integers, Sequences, FiniteSets, TLC

VARIABLES
    impl,       \* "go" | "ts" | "async", or "new" | "tsnew" | "asnew" for a
                \* constructor alone: which program this behaviour runs
    now,        \* the wall clock, as elapsed time since timestampStart
    g,          \* the Go *Generator (a record), or Nil
    mu,         \* g.mu: 0 when free, else the goroutine holding it
    pc,         \* per goroutine: position inside Generate
    ret,        \* per goroutine: what the running Generate call returns, the
                \* instant it read and the number of pool bytes it read
    issued,     \* the identifier returned by the latest successful Generate
    decRet,     \* what the latest Decode / decode call returned
    cfgIn,      \* the Config handed to New
    newRet,     \* what New returned
    tsg,        \* the TypeScript SortableIDGenerator (a record), or Nil
    tsRet,      \* what the latest TypeScript generate() call returned or threw
    tsIssued,   \* the identifiers generate() returned in the bucket lastTimeSpan
    tsThrown,   \* whether generate() threw rate-exceeded in that bucket
    burst,      \* Go: the timestamp and chrono fields of the identifiers
                \* returned since Generate last entered a new bucket
    asg,        \* the async TypeScript SortableIDGenerator (a record), or Nil
    calls,      \* the async generate() calls, in the order they were started
    fnRet       \* the latest application of a function to chosen arguments

vars == <<impl, now, g, mu, pc, ret, issued, decRet, cfgIn, newRet,
          tsg, tsRet, tsIssued, tsThrown, burst, asg, calls, fnRet>>

restVars == <<burst, asg, calls, fnRet>>

Nil == "nil"

(***************************************************************************)
(* Bounds of the model.                                                    *)
(***************************************************************************)
NumProcs == 2        \* goroutines calling Generate concurrently
MaxByte == 3         \* random bytes are drawn from 0..MaxByte
MaxDraws == 3        \* bytes one Generate call may read (suffix + redraws)
PoolSize == 2        \* g.poolSize, scaled down from 1024
ExtraBuckets == 1    \* buckets the clock may pass beyond maxTimestamp
MaxCalls == 4        \* async generate() calls started on one generator
MaxField == 3        \* symbols of a field handed to an increment operation
MaxSpan == 40        \* milliseconds from timestampStart to a timestampEnd
MaxBucketGap == 3    \* distance of two buckets handed to encodeTimestamp
MaxBase == 16        \* alphabet size handed to the length calculations
MaxUnits == 260      \* units from TimestampStart to TimestampEnd
MaxWaits == 2        \* timers of one call that the history tells apart

Procs == 1..NumProcs

(***************************************************************************)
(* Strings and integers.                                                   *)
(***************************************************************************)
Min(a, b) == IF a < b THEN a ELSE b

\* c.repeat(n) for one UTF-16 unit c
Repeat(c, n) == [i \in 1..n |-> c]

\* id[from:to] with both bounds inside the string (Go), zero based
GoSlice(s, from, to) == SubSeq(s, from + 1, to)

Max(a, b) == IF a < b THEN b ELSE a

\* The index String.prototype.slice makes of a bound i of a string of len
\* units: a negative bound counts from the end, and both ends are clamped
JsIndex(i, len) == IF i < 0 THEN Max(len + i, 0) ELSE Min(i, len)

\* String.prototype.slice(from, to): the units from..to-1 after JsIndex, the
\* empty string when none
JsSlice(s, from, to) ==
    LET k == JsIndex(from, Len(s))
        final == JsIndex(to, Len(s))
    IN IF k < final THEN SubSeq(s, k + 1, final) ELSE <<>>

\* a < b as Go and JavaScript compare strings (code point order)
StrLess(a, b) ==
    \/ /\ Len(a) < Len(b)
       /\ \A i \in 1..Len(a) : a[i] = b[i]
    \/ \E i \in 1..Min(Len(a), Len(b)) :
          /\ a[i] < b[i]
          /\ \A j \in 1..(i - 1) : a[j] = b[j]

StrLessEq(a, b) == a = b \/ StrLess(a, b)

\* strings.IndexByte / String.prototype.indexOf for one symbol: -1 if absent
IndexOf(alphabet, c) ==
    IF \E i \in 1..Len(alphabet) : alphabet[i] = c
    THEN (CHOOSE i \in 1..Len(alphabet) :
             /\ alphabet[i] = c
             /\ \A j \in 1..(i - 1) : alphabet[j] # c) - 1
    ELSE -1

\* utf8.RuneError, the rune Go reads from a byte that starts no valid
\* UTF-8 sequence
RuneError == 65533

\* string(runes): the UTF-8 bytes of the code points s
RECURSIVE Utf8(_)
Utf8(s) ==
    IF s = <<>> THEN <<>>
    ELSE (IF s[1] < 128 THEN <<s[1]>>
          ELSE IF s[1] < 2048
          THEN <<192 + (s[1] \div 64), 128 + (s[1] % 64)>>
          ELSE <<224 + (s[1] \div 4096), 128 + ((s[1] \div 64) % 64),
                 128 + (s[1] % 64)>>) \o Utf8(Tail(s))

\* []rune(s) and `for _, c := range s`: the runes of the bytes b; a byte
\* that starts no valid sequence of one to three bytes is read as RuneError
RECURSIVE Runes(_)
Runes(b) ==
    IF b = <<>> THEN <<>>
    ELSE IF b[1] < 128 THEN <<b[1]>> \o Runes(Tail(b))
    ELSE IF /\ b[1] \in 194..223
            /\ Len(b) >= 2
            /\ b[2] \in 128..191
    THEN <<(b[1] - 192) * 64 + (b[2] - 128)>> \o Runes(SubSeq(b, 3, Len(b)))
    ELSE IF /\ b[1] \in 224..239
            /\ Len(b) >= 3
            /\ b[2] \in (IF b[1] = 224 THEN 160..191
                          ELSE IF b[1] = 237 THEN 128..159 ELSE 128..191)
            /\ b[3] \in 128..191
    THEN <<(b[1] - 224) * 4096 + (b[2] - 128) * 64 + (b[3] - 128)>>
         \o Runes(SubSeq(b, 4, Len(b)))
    ELSE <<RuneError>> \o Runes(Tail(b))

\* len(s) of the Go string holding the code points s: its number of bytes
GoLen(s) ==
    Len(s) + Cardinality({ i \in 1..Len(s) : s[i] >= 128 })
           + Cardinality({ i \in 1..Len(s) : s[i] >= 2048 })

\* strings.Repeat(string(c), n) for a byte c: string(c) is the UTF-8 form of
\* the code point c
RECURSIVE GoRepeat(_, _)
GoRepeat(c, n) == IF n <= 0 THEN <<>> ELSE Utf8(<<c>>) \o GoRepeat(c, n - 1)

Reverse(s) == [i \in 1..Len(s) |-> s[Len(s) + 1 - i]]

\* strings.IndexRune(s, r) for a valid UTF-8 string s: the byte offset of
\* the first r, or -1
IndexRune(s, r) ==
    LET rs == Runes(s)
    IN IF \E i \in 1..Len(rs) : rs[i] = r
       THEN LET i == CHOOSE i \in 1..Len(rs) :
                        /\ rs[i] = r
                        /\ \A j \in 1..(i - 1) : rs[j] # r
            IN GoLen(SubSeq(rs, 1, i - 1))
       ELSE -1

\* Go's integer division and remainder truncate toward zero
Quot(a, b) == IF a >= 0 THEN a \div b ELSE -((-a) \div b)
Rem(a, b) == a - b * Quot(a, b)

RECURSIVE Pow(_, _)
Pow(b, n) == IF n = 0 THEN 1 ELSE b * Pow(b, n - 1)

\* a & b on non-negative integers
RECURSIVE BitAnd(_, _)
BitAnd(a, b) ==
    IF a = 0 \/ b = 0 THEN 0
    ELSE 2 * BitAnd(a \div 2, b \div 2) + (a % 2) * (b % 2)

(***************************************************************************)
(* Whole numbers beyond 32 bits (an int64 count of nanoseconds, a double   *)
(* count of milliseconds): the sequence of their groups of three decimal   *)
(* digits, most significant first, as the number is written with thousands *)
(* separators: 60,000,000,000 is <<60, 0, 0, 0>> and zero is <<0>>.        *)
(***************************************************************************)
\* The one element of a set of one element
Only(S) == CHOOSE x \in S : TRUE

\* d without its leading zero groups
WideTrim(d) ==
    IF \A i \in 1..Len(d) : d[i] = 0 THEN <<0>>
    ELSE SubSeq(d, CHOOSE i \in 1..Len(d) :
                       d[i] # 0 /\ \A j \in 1..(i - 1) : d[j] = 0, Len(d))

RECURSIVE WideNat(_)
WideNat(n) == IF n < 1000 THEN <<n>> ELSE Append(WideNat(n \div 1000), n % 1000)

\* The integer a wide number d0 >= 0 below 2^31 stands for
RECURSIVE WideNatInt(_)
WideNatInt(d0) ==
    Only({ IF Len(d) = 1 THEN d[1]
           ELSE 1000 * WideNatInt(SubSeq(d, 1, Len(d) - 1)) + d[Len(d)] :
           d \in {d0} })

\* The integer a wide number of either sign stands for: a negative number
\* is the wide number of its size with the first group negated
WideInt(d) ==
    IF d[1] < 0 THEN -WideNatInt([d EXCEPT ![1] = -d[1]]) ELSE WideNatInt(d)

WideLess(a0, b0) ==
    \E a \in {a0}, b \in {b0} :
       \/ Len(a) < Len(b)
       \/ /\ Len(a) = Len(b)
          /\ \E i \in 1..Len(a) :
                a[i] < b[i] /\ \A j \in 1..(i - 1) : a[j] = b[j]

\* d with leading zero groups up to n groups
WidePad(d, n) == [i \in 1..(n - Len(d)) |-> 0] \o d

\* a + b: a group takes a carry when a group after it has a sum of 1000 or
\* more and every group between the two a sum of 999
WideAdd(a0, b0) ==
    Only({ WideTrim([i \in 1..(Len(s) + 1) |->
                        ((IF i = 1 THEN 0 ELSE s[i - 1])
                         + (IF \E j \in i..Len(s) :
                                  s[j] >= 1000 /\ \A k \in i..(j - 1) : s[k] = 999
                            THEN 1 ELSE 0)) % 1000] \o <<>>) :
           s \in {Only({ [i \in 1..Len(a) |-> a[i] + b[i]] \o <<>> :
                         a \in {WidePad(a0, Max(Len(a0), Len(b0)))},
                         b \in {WidePad(b0, Max(Len(a0), Len(b0)))} })} })

\* a - b for a >= b: a group lends one when a group after it has a negative
\* difference and every group between the two a difference of 0
WideSub(a0, b0) ==
    Only({ WideTrim([i \in 1..Len(d) |->
                        (d[i] + 1000
                         - (IF \E j \in (i + 1)..Len(d) :
                                  d[j] < 0 /\ \A k \in (i + 1)..(j - 1) : d[k] = 0
                            THEN 1 ELSE 0)) % 1000] \o <<>>) :
           d \in {Only({ [i \in 1..Len(a) |-> a[i] - b[i]] \o <<>> :
                         a \in {a0}, b \in {WidePad(b0, Len(a0))} })} })

\* a * k over the groups hi down to lo of a, one half of the groups after
\* the other: st is the carry and the product so far
RECURSIVE WideTimesLoop(_, _, _, _, _)
WideTimesLoop(a, k, lo, hi, st) ==
    IF lo < hi
    THEN Only({ WideTimesLoop(a, k, lo, (lo + hi) \div 2, half) :
                half \in {WideTimesLoop(a, k, ((lo + hi) \div 2) + 1, hi, st)} })
    ELSE [carry |-> (a[lo] * k + st.carry) \div 1000,
          acc |-> <<(a[lo] * k + st.carry) % 1000>> \o st.acc]

\* a * k for an integer 0 <= k <= 2000000
WideTimes(a0, k0) ==
    Only({ WideTrim(WideNat(st.carry) \o st.acc) :
           st \in {Only({ WideTimesLoop(a, k, 1, Len(a), [carry |-> 0, acc |-> <<>>]) :
                          a \in {a0}, k \in {k0} })} })

\* The sum of the products of a by the groups lo..hi of b, each at its place
RECURSIVE WideMulLoop(_, _, _, _)
WideMulLoop(a, b, lo, hi) ==
    IF lo < hi
    THEN WideAdd(WideMulLoop(a, b, lo, (lo + hi) \div 2),
                 WideMulLoop(a, b, ((lo + hi) \div 2) + 1, hi))
    ELSE WideTimes(a, b[lo]) \o [i \in 1..(Len(b) - lo) |-> 0]

WideMul(a0, b0) ==
    Only({ WideTrim(WideMulLoop(a, b, 1, Len(b))) : a \in {a0}, b \in {b0} })

\* a \div k and a % k over the groups lo..hi of a, one half of the groups
\* after the other: st is the remainder and the quotient so far
RECURSIVE WideQuotLoop(_, _, _, _, _)
WideQuotLoop(a, k, lo, hi, st) ==
    IF lo < hi
    THEN Only({ WideQuotLoop(a, k, ((lo + hi) \div 2) + 1, hi, half) :
                half \in {WideQuotLoop(a, k, lo, (lo + hi) \div 2, st)} })
    ELSE [r |-> (st.r * 1000 + a[lo]) % k,
          q |-> Append(st.q, (st.r * 1000 + a[lo]) \div k)]

\* [q |-> a \div k, r |-> a % k] for an integer 0 < k <= 2000000
WideQuotRem(a0, k0) ==
    Only({ [q |-> WideTrim(st.q), r |-> st.r] :
           st \in {Only({ WideQuotLoop(a, k, 1, Len(a), [r |-> 0, q |-> <<>>]) :
                          a \in {a0}, k \in {k0} })} })

WideQuot(a, k) == WideQuotRem(a, k).q

\* b^n for an integer 0 <= b <= 2000000, squaring b^(n \div 2)
RECURSIVE WidePow(_, _)
WidePow(b, n) ==
    IF n = 0 THEN <<1>>
    ELSE Only({ IF n % 2 = 0 THEN WideMul(h, h) ELSE WideTimes(WideMul(h, h), b) :
                h \in {WidePow(b, n \div 2)} })

\* 2^0, 2^1, ..., 2^n: the upper half of the sequence is the lower half
\* times its last number
RECURSIVE PowersOfTwoTo(_)
PowersOfTwoTo(n) ==
    IF n = 0 THEN <<<<1>>>>
    ELSE IF n = 1 THEN <<<<1>>, <<2>>>>
    ELSE Only({ [k \in 1..(n + 1) |->
                   IF k <= Len(low) THEN low[k]
                   ELSE WideMul(low[Len(low)], low[k - Len(low) + 1])] :
                low \in {PowersOfTwoTo((n + 1) \div 2)} })

\* The powers of two, each worked out once
TwoTo == Only({ [n \in 0..400 |-> powers[n + 1]] : powers \in {PowersOfTwoTo(400)} })

\* Whether a wide number is below 2^31
WideFits(d) == WideLess(d, <<2, 147, 483, 648>>)

\* A number the model's integers hold is kept as an integer, and every
\* other as a wide number
Narrow(d) == IF WideFits(d) THEN WideInt(d) ELSE d

\* Whether base^n is at most limit, for base >= 2
RECURSIVE PowFits(_, _, _)
PowFits(base, n, limit) ==
    IF n = 0 THEN limit >= 1
    ELSE limit >= base /\ PowFits(base, n - 1, limit \div base)

\* a \div 2^k, twenty bits at a time
RECURSIVE WideShr(_, _)
WideShr(a, k) ==
    IF k <= 20 THEN WideQuot(a, Pow(2, k))
    ELSE Only({ WideShr(q, k - 20) : q \in {WideQuot(a, Pow(2, 20))} })

\* A wide number modulo 2^64
WideMod64(a) == WideSub(a, WideMul(WideShr(a, 64), TwoTo[64]))

\* A negative int64 is the wide number of its size with the first group
\* negated
WideNeg(a) == [a EXCEPT ![1] = -a[1]]

\* The int64 with the bits of a wide number below 2^64
WideInt64(a) ==
    IF WideLess(a, TwoTo[63]) THEN a
    ELSE WideNeg(WideSub(TwoTo[64], a))

\* The bits of an int64, a wide number below 2^64
WideBits64(a) ==
    IF a[1] < 0 THEN WideSub(TwoTo[64], WideNeg(a)) ELSE a

\* a * b in int64 arithmetic: the product's low 64 bits
Int64Mul(a, b) ==
    WideInt64(WideMod64(WideMul(WideBits64(a), WideBits64(b))))

(***************************************************************************)
(* Wide numbers of either sign.                                            *)
(***************************************************************************)
\* The size of a wide number
WideAbs(a) == IF a[1] < 0 THEN WideNeg(a) ELSE a

\* A wide number of either sign is below another
WideLt(a, b) ==
    IF a[1] < 0 THEN b[1] >= 0 \/ WideLess(WideNeg(b), WideNeg(a))
    ELSE b[1] >= 0 /\ WideLess(a, b)

WideLe(a, b) == a = b \/ WideLt(a, b)

\* a - b for wide numbers a, b >= 0
WideMinus(a, b) ==
    IF WideLess(a, b) THEN WideNeg(WideSub(b, a)) ELSE WideSub(a, b)

\* a + b for wide numbers of either sign
WidePlus(a, b) ==
    IF a[1] < 0
    THEN IF b[1] < 0 THEN WideNeg(WideAdd(WideNeg(a), WideNeg(b)))
         ELSE WideMinus(b, WideNeg(a))
    ELSE IF b[1] < 0 THEN WideMinus(a, WideNeg(b))
    ELSE WideAdd(a, b)

\* a - b for wide numbers of either sign
WideDiff(a, b) == WidePlus(a, WideNeg(b))

\* a + 1 for a wide number of either sign
WideSucc(a) ==
    IF a[1] < 0 THEN WideNeg(WideSub(WideNeg(a), <<1>>)) ELSE WideAdd(a, <<1>>)

\* The wide number of an integer of either sign
WideOf(n) == IF n < 0 THEN WideNeg(WideNat(-n)) ELSE WideNat(n)

\* a * 2^k for a wide number of either sign
WideShl(a, k) ==
    IF a[1] < 0 THEN WideNeg(WideMul(WideNeg(a), TwoTo[k]))
    ELSE WideMul(a, TwoTo[k])

\* The greatest d of 0..999 with b * d <= cur, for b of three groups or more
\* and cur < 1000 * b: d lies between the quotients of the leading groups
\* of cur by those of b, rounded either way
WideDigit(cur, b) ==
    Only({ Only({ CHOOSE d \in (lead \div (by + 1))..Min(999, (lead + 1) \div by) :
                     /\ ~WideLess(cur, WideTimes(b, d))
                     /\ d = 999 \/ WideLess(cur, WideTimes(b, d + 1)) :
                  lead \in {top[1] * 1000000 + top[2] * 1000 + top[3]},
                  by \in {b[1] * 1000 + b[2]} }) :
           top \in {[i \in 1..3 |->
                        IF i + Len(cur) > Len(b) + 1
                        THEN cur[i + Len(cur) - Len(b) - 1] ELSE 0]} })

\* Long division of a by the wide number b over the groups lo..hi of a, one
\* half of the groups after the other: st is the remainder and the quotient
\* so far
RECURSIVE WideDivLoop(_, _, _, _, _)
WideDivLoop(a, b, lo, hi, st) ==
    IF lo < hi
    THEN Only({ WideDivLoop(a, b, ((lo + hi) \div 2) + 1, hi, half) :
                half \in {WideDivLoop(a, b, lo, (lo + hi) \div 2, st)} })
    ELSE Only({ Only({ [r |-> WideSub(cur, WideTimes(b, d)), q |-> Append(st.q, d)] :
                       d \in {WideDigit(cur, b)} }) :
                cur \in {WideTrim(Append(st.r, a[lo]))} })

\* [q |-> a \div b, r |-> a % b] for wide numbers a >= 0 and b > 0
WideDivMod(a, b) ==
    IF b = <<1>> THEN [q |-> a, r |-> <<0>>]
    ELSE IF WideLess(b, <<2, 0, 1>>)
    THEN Only({ [q |-> qr.q, r |-> WideNat(qr.r)] :
                qr \in {WideQuotRem(a, WideInt(b))} })
    ELSE Only({ [q |-> WideTrim(st.q), r |-> st.r] :
                st \in {WideDivLoop(a, b, 1, Len(a), [r |-> <<0>>, q |-> <<0>>])} })

\* [q, r] with a = q * b + r and 0 <= r < b, for a wide number a of either
\* sign and b > 0
WideFloorDivMod(a, b) ==
    IF a[1] >= 0 THEN WideDivMod(a, b)
    ELSE Only({ IF qr.r = <<0>> THEN [q |-> WideNeg(qr.q), r |-> <<0>>]
                ELSE [q |-> WideNeg(WideAdd(qr.q, <<1>>)),
                      r |-> WideSub(b, qr.r)] :
                qr \in {WideDivMod(WideNeg(a), b)} })

(***************************************************************************)
(* float64 arithmetic on normal numbers and zero: [m, e] is m * 2^e for a  *)
(* wide mantissa of either sign with 2^52 <= |m| < 2^53, and zero is       *)
(* [m |-> <<0>>, e |-> 0].  Every operation rounds its exact result to the *)
(* nearest float64, ties to the even mantissa.                             *)
(***************************************************************************)
\* The number of bits of a wide number t > 0 of g groups: between 9(g - 1)
\* + 1 and 10g, as 2^9 < 1000 < 2^10
BitLen(t) ==
    CHOOSE n \in (9 * (Len(t) - 1) + 1)..(10 * Len(t)) :
       /\ WideLess(t, TwoTo[n])
       /\ ~WideLess(t, TwoTo[n - 1])

\* The float64 nearest to (t + s) * 2^e, ties to the even mantissa, for a
\* wide number t > 0 and a part 0 <= s < 1 that is not 0 when `sticky`
Float64Round(t0, sticky, e) ==
    Only({ IF len <= 53
           THEN [m |-> WideMul(t, TwoTo[53 - len]), e |-> e - (53 - len)]
           ELSE Only({ Only({ IF up /\ q = WideSub(TwoTo[53], <<1>>)
                              THEN [m |-> TwoTo[52], e |-> e + len - 52]
                              ELSE [m |-> IF up THEN WideAdd(q, <<1>>) ELSE q,
                                    e |-> e + len - 53] :
                              up \in {\/ WideLess(TwoTo[len - 54], r)
                                      \/ /\ r = TwoTo[len - 54]
                                         /\ sticky \/ q[Len(q)] % 2 = 1} }) :
                       q \in {WideShr(t, len - 53)},
                       r \in {WideSub(t, WideMul(WideShr(t, len - 53),
                                                 TwoTo[len - 53]))} }) :
           t \in {t0}, len \in {BitLen(t0)} })

Float64Zero == [m |-> <<0>>, e |-> 0]

\* -a
Float64Neg(a) == [a EXCEPT !.m = WideNeg(a.m)]

\* a, or -a when `negative`
Float64Signed(negative, a) == IF negative THEN Float64Neg(a) ELSE a

\* The float64 nearest to a wide number t of either sign times 2^e
Float64Near(t, sticky, e) ==
    IF t = <<0>> THEN Float64Zero
    ELSE Float64Signed(t[1] < 0, Float64Round(WideAbs(t), sticky, e))

\* float64(n) for a wide number n of either sign
Float64Of(n) == Float64Near(n, FALSE, 0)

\* a * b for floats a, b > 0
Float64Mul(a, b) == Float64Round(WideMul(a.m, b.m), FALSE, a.e + b.e)

\* a divided by the integers ks one after another, each at most 2000000
RECURSIVE WideQuotAll(_, _, _)
WideQuotAll(a, ks, i) ==
    IF i > Len(ks) THEN a
    ELSE Only({ WideQuotAll(q, ks, i + 1) : q \in {WideQuot(a, ks[i])} })

RECURSIVE WideTimesAll(_, _, _)
WideTimesAll(a, ks, i) ==
    IF i > Len(ks) THEN a
    ELSE Only({ WideTimesAll(q, ks, i + 1) : q \in {WideTimes(a, ks[i])} })

\* a / d for a float a >= 0 and the float d that is the product of the
\* integers ks, below 2^42: the quotient of a.m * 2^96 has 54 bits or more
Float64Div(a, ks) ==
    IF a = Float64Zero THEN Float64Zero
    ELSE Only({ Float64Round(t, WideTimesAll(t, ks, 1) # n, a.e - 96) :
                n \in {WideMul(a.m, TwoTo[96])},
                t \in {WideQuotAll(WideMul(a.m, TwoTo[96]), ks, 1)} })

\* float64(n) + f for a wide number n below 2^53 and a float 0 <= f < 1
Float64Add(n, f) ==
    IF f = Float64Zero THEN Float64Of(n)
    ELSE Float64Round(WideAdd(WideMul(n, TwoTo[-f.e]), f.m), FALSE, f.e)

\* The result of int64(f) for a float64 f of 2^63 or more: the conversion
\* is implementation-dependent (see Builds)
OutOfInt64 == <<>>

\* int64(f) for a float64 f >= 0: its whole part
Float64ToInt64(f) ==
    IF f.e > 10 THEN OutOfInt64
    ELSE IF f.e >= 0 THEN WideMul(f.m, TwoTo[f.e])
    ELSE WideShr(f.m, -f.e)

\* a / b for floats a and b # 0: a power of two divides exactly, and else
\* the quotient of |a.m| * 2^64 by |b.m| has 64 bits or more
Float64Quot(a, b) ==
    IF a = Float64Zero THEN Float64Zero
    ELSE IF WideAbs(b.m) = TwoTo[52]
    THEN Float64Signed(b.m[1] < 0, [a EXCEPT !.e = a.e - b.e - 52])
    ELSE Only({ Float64Signed((a.m[1] < 0) # (b.m[1] < 0),
                              Float64Round(qr.q, qr.r # <<0>>, a.e - b.e - 64)) :
                qr \in {WideDivMod(WideMul(WideAbs(a.m), TwoTo[64]),
                                   WideAbs(b.m))} })

\* a * b for floats
Float64Times(a, b) ==
    IF a = Float64Zero \/ b = Float64Zero THEN Float64Zero
    ELSE Float64Signed((a.m[1] < 0) # (b.m[1] < 0),
                       Float64Round(WideMul(WideAbs(a.m), WideAbs(b.m)), FALSE,
                                    a.e + b.e))

\* a + b for floats; an operand more than 64 binary places below the other
\* leaves it as it is
Float64Sum(a, b) ==
    IF a = Float64Zero THEN b
    ELSE IF b = Float64Zero THEN a
    ELSE IF a.e > b.e + 64 THEN a
    ELSE IF b.e > a.e + 64 THEN b
    ELSE Float64Near(WidePlus(WideShl(a.m, a.e - Min(a.e, b.e)),
                              WideShl(b.m, b.e - Min(a.e, b.e))),
                     FALSE, Min(a.e, b.e))

\* a < b for floats
Float64Less(a, b) ==
    IF a.m[1] < 0 /\ b.m[1] < 0
    THEN a.e > b.e \/ (a.e = b.e /\ WideLess(WideNeg(b.m), WideNeg(a.m)))
    ELSE IF a.m[1] < 0 \/ b.m[1] < 0 THEN a.m[1] < 0
    ELSE IF b = Float64Zero THEN FALSE
    ELSE IF a = Float64Zero THEN TRUE
    ELSE a.e < b.e \/ (a.e = b.e /\ WideLess(a.m, b.m))

\* The whole part of a float f below 2^147 in size, of the sign of f
Float64Trunc(f) ==
    IF f.e >= 0 THEN WideShl(f.m, f.e)
    ELSE IF f.e < -53 THEN <<0>>
    ELSE Only({ IF f.m[1] < 0 /\ q # <<0>> THEN WideNeg(q) ELSE q :
                q \in {WideShr(WideAbs(f.m), -f.e)} })

\* Whether a float is a whole number
Float64Whole(f) ==
    \/ f.e >= 0
    \/ /\ f.e >= -53
       /\ WideMul(WideShr(WideAbs(f.m), -f.e), TwoTo[-f.e]) = WideAbs(f.m)

\* Math.ceil(f), a wide number
Float64Ceil(f) ==
    IF f.m[1] <= 0 \/ Float64Whole(f) THEN Float64Trunc(f)
    ELSE WideAdd(Float64Trunc(f), <<1>>)

\* The float with the 64 bits of the four 16-bit words w, the most
\* significant first: a sign bit, 11 bits of exponent and 52 of mantissa
Float64Bits(w) ==
    Float64Signed(
        w[1] >= 32768,
        [m |-> WideAdd(WideAdd(TwoTo[52],
                               WideMul(WideNat((w[1] % 16) * 65536 + w[2]),
                                       TwoTo[32])),
                       WideAdd(WideTimes(WideNat(w[3]), 65536), WideNat(w[4]))),
         e |-> ((w[1] % 32768) \div 16) - 1075])

\* The high 32-bit word of a float without its sign bit: the exponent and
\* the upper 20 bits of the mantissa
Float64HighWord(f) ==
    IF f = Float64Zero THEN 0
    ELSE (f.e + 1075) * 1048576
         + WideInt(WideShr(WideSub(WideAbs(f.m), TwoTo[52]), 32))

\* The float with that high word and a low word of zero
Float64OfHighWord(hw) ==
    [m |-> WideMul(WideNat(1048576 + (hw % 1048576)), TwoTo[32]),
     e |-> (hw \div 1048576) - 1075]

\* A float with its low 32-bit word set to zero
Float64High(f) ==
    IF f = Float64Zero THEN f
    ELSE Float64Signed(f.m[1] < 0,
                       [m |-> WideMul(WideShr(WideAbs(f.m), 32), TwoTo[32]),
                        e |-> f.e])

\* One operation of float64 arithmetic
Float64Op(op, a, b) ==
    CASE op \in {"+", "-"} -> Float64Sum(a, IF op = "-" THEN Float64Neg(b) ELSE b)
      [] op = "*" -> Float64Times(a, b)
      [] op = "/" -> Float64Quot(a, b)

\* The stack, its latest value first, after the words lo to hi of an
\* expression in postfix notation: x y + is x + y, x high is x with its
\* low word set to zero, and a name is a variable of env
RECURSIVE Float64Postfix(_, _, _, _, _)
Float64Postfix(expr, lo, hi, stack, env) ==
    IF lo < hi
    THEN Only({ Float64Postfix(expr, ((lo + hi) \div 2) + 1, hi, s, env) :
                s \in {Float64Postfix(expr, lo, (lo + hi) \div 2, stack, env)} })
    ELSE IF expr[lo] \in {"+", "-", "*", "/"}
    THEN <<Float64Op(expr[lo], stack[2], stack[1])>>
             \o SubSeq(stack, 3, Len(stack))
    ELSE IF expr[lo] = "high" THEN <<Float64High(stack[1])>> \o Tail(stack)
    ELSE <<env[expr[lo]]>> \o stack

\* The variables after the assignments lo to hi of a sequence of
\* assignments <<variable, expression>>
RECURSIVE Float64Run(_, _, _, _)
Float64Run(code, lo, hi, env) ==
    IF lo < hi
    THEN Only({ Float64Run(code, ((lo + hi) \div 2) + 1, hi, e) :
                e \in {Float64Run(code, lo, (lo + hi) \div 2, env)} })
    ELSE (code[lo][1] :>
              Float64Postfix(code[lo][2], 1, Len(code[lo][2]), <<>>, env)[1])
         @@ env

(***************************************************************************)
(* Go: configuration (generator.go).                                       *)
(***************************************************************************)
\* "0123456789abcdefghijklmnopqrstuvwxyzABCDEFGHIJKLMNOPQRSTUVWXYZ-_"
DefaultAlphabet ==
    [i \in 1..10 |-> 47 + i] \o [i \in 1..26 |-> 96 + i] \o
    [i \in 1..26 |-> 64 + i] \o <<45, 95>>

\* DefaultConfig().  TimestampStart is the origin of the model's clock; the
\* pointer TimestampEnd is <<>> when nil and <<t>> when it points to t
DefaultConfig ==
    [Alphabet |-> DefaultAlphabet, TotalLength |-> 32, TimestampEnd |-> <<>>,
     TimestampLevel |-> "microsecond", MaxSortableRate |-> "100_per_microsecond"]

\* The levels whose duration is beyond the model's integers
GoWideLevel(level) == level \in {"minute", "hour", "day", "month", "year"}

\* getTimestampDuration: time.Nanosecond, ..., 365 * 24 * time.Hour in
\* nanoseconds, an integer up to time.Second and a wide number from
\* time.Minute on (GoWideLevel)
getTimestampDuration(level) ==
    CASE level = "nanosecond" -> 1
      [] level = "microsecond" -> 1000
      [] level = "millisecond" -> 1000000
      [] level = "second" -> 1000000000
      [] level = "minute" -> <<60, 0, 0, 0>>
      [] level = "hour" -> <<3, 600, 0, 0, 0>>
      [] level = "day" -> <<86, 400, 0, 0, 0>>
      [] level = "month" -> <<2, 592, 0, 0, 0, 0>>
      [] level = "year" -> <<31, 536, 0, 0, 0, 0>>
      [] OTHER -> 1

\* getTimestampDuration as a wide number at every level
WideTimestampDuration(level) ==
    IF GoWideLevel(level) THEN getTimestampDuration(level)
    ELSE WideNat(getTimestampDuration(level))

\* The greatest time.Duration, 2^63 - 1 nanoseconds: what Time.Sub returns
\* for instants further apart
MaxDuration == <<9, 223, 372, 36, 854, 775, 807>>

\* sortAlphabet sorts the runes; split('').sort() sorts the UTF-16 units
sortAlphabet(alphabet) == SortSeq(alphabet, LAMBDA a, b : a < b)

ErrAlphabetLong == "alphabet must contain no more than 255 chars"
ErrAlphabetShort == "alphabet must contain at least 2 characters"
ErrAlphabetDup == "alphabet must contain unique characters"
ErrEndBeforeStart == "end date cannot be before start date"
ErrTotalLength == "total length must be at least"
ErrTimestamp == "current time exceeds maximum supported timestamp"
ErrRate == "too many ids generated in a short period of time"
NoErr == "nil"

\* validateConfig: the error, or NoErr.  cfg.Alphabet is the sequence of the
\* string's runes: len() counts its bytes, `range` visits its runes.
\* TimestampEnd is an offset from TimestampStart, so End.Before(Start) is
\* TimestampEnd[1] < 0.
validateConfig(cfg) ==
    IF GoLen(cfg.Alphabet) < 2 THEN ErrAlphabetShort
    ELSE IF \E i, j \in 1..Len(cfg.Alphabet) :
                i < j /\ cfg.Alphabet[i] = cfg.Alphabet[j]
         THEN ErrAlphabetDup
    ELSE IF cfg.TimestampEnd # <<>> /\ cfg.TimestampEnd[1] < 0
         THEN ErrEndBeforeStart
    ELSE NoErr

\* idsPerSecond * multiplier, truncated by int64(): idsPerSecond is a power
\* of ten and multiplier is m * 10^k, so the product is kept exact
RateExp(rate) ==
    CASE rate = "10_per_nanosecond" -> 10
      [] rate = "100_per_microsecond" -> 8
      [] rate = "1_per_microsecond" -> 6
      [] rate = "10_per_millisecond" -> 4
      [] rate = "100_per_second" -> 2
      [] rate = "1_per_second" -> 0
      [] OTHER -> 6

LevelMantissa(level) ==
    CASE level = "year" -> 365 * 24 * 60 * 60
      [] level = "month" -> 31 * 24 * 60 * 60
      [] level = "day" -> 24 * 60 * 60
      [] level = "hour" -> 60 * 60
      [] level = "minute" -> 60
      [] OTHER -> 1

LevelExp(level) ==
    CASE level = "millisecond" -> -3
      [] level = "microsecond" -> -6
      [] level = "nanosecond" -> -9
      [] OTHER -> 0

\* totalIds, a wide number (it reaches 315,360,000,000,000,000)
TotalIds(rate, level) ==
    LET e == RateExp(rate) + LevelExp(level)
    IN IF e >= 0 THEN WideMul(WideNat(LevelMantissa(level)), WidePow(10, e))
       ELSE WideNat(LevelMantissa(level) \div Pow(10, -e))

\* How many digits a wide number n below 2^64 has in the base: the least k
\* with n < base^k, 0 for n = 0
DigitsIn(n, base) ==
    CHOOSE k \in 0..64 :
       /\ WideLess(n, WidePow(base, k))
       /\ k = 0 \/ ~WideLess(n, WidePow(base, k - 1))

\* for b := base; totalIds/int64(b) > 0; b *= base { length++ }: length
\* grows once for every power base^1, base^2, ... that totalIds reaches,
\* to the number of digits of totalIds.  Where b * base passes 2^63 the
\* int64 b is negative or beyond totalIds, and the loop ends the same.
ChronoLoop(totalIds, base, length) ==
    length + Max(DigitsIn(totalIds, base) - 1, 0)

calculateChronoLength(base, rate, level) ==
    Only({ ChronoLoop(totalIds, base, 1) :
           totalIds \in {TotalIds(rate, level)} })

\* Duration.Seconds(), Minutes() and Hours() of a wide duration d >= 0, for
\* the unit that is the product of the integers ks:
\*   sec := d / Second; nsec := d % Second
\*   return float64(sec) + float64(nsec)/1e9
DurationFloat(d, ks) ==
    Only({ Float64Add(whole,
                      Float64Div(Float64Of(WideSub(d, WideTimesAll(whole, ks, 1))),
                                 ks)) :
           whole \in {WideQuotAll(d, ks, 1)} })

DurationSeconds(d) == DurationFloat(d, <<1000, 1000, 1000>>)
DurationMinutes(d) == DurationFloat(d, <<60, 1000, 1000, 1000>>)
DurationHours(d) == DurationFloat(d, <<3600, 1000, 1000, 1000>>)

\* The units of the switch of calculateTimestampLength for a wide duration
\* d >= 0: duration.Nanoseconds(), ..., int64(duration.Hours() / 24 / 365),
\* and duration.Microseconds() for a level that is none of the nine
DurationUnits(d, level) ==
    CASE level = "nanosecond" -> d
      [] level = "microsecond" -> WideQuot(d, 1000)
      [] level = "millisecond" -> WideQuot(d, 1000000)
      [] level = "second" -> Float64ToInt64(DurationSeconds(d))
      [] level = "minute" -> Float64ToInt64(DurationMinutes(d))
      [] level = "hour" -> Float64ToInt64(DurationHours(d))
      [] level = "day" -> Float64ToInt64(Float64Div(DurationHours(d), <<24>>))
      [] level = "month" ->
             Float64ToInt64(Float64Div(Float64Div(DurationHours(d), <<24>>),
                                       <<30>>))
      [] level = "year" ->
             Float64ToInt64(Float64Div(Float64Div(DurationHours(d), <<24>>),
                                       <<365>>))
      [] OTHER -> WideQuot(d, 1000)

\* for remaining > 0 { remaining /= baseInt64; if remaining > 0 { length++ } }:
\* remaining loses a digit at every division and length grows at every
\* division but the last
TimestampLoop(remaining, base, length) ==
    length + Max(DigitsIn(remaining, base) - 1, 0)

\* calculateTimestampLength for the wide number `duration` of nanoseconds
\* that end.Sub(start) returns; the units of a negative duration are zero
\* or negative at every level, and the loop is not entered
calculateTimestampLength(base, duration, level) ==
    IF duration[1] < 0 THEN 1
    ELSE Only({ TimestampLoop(units, base, 1) :
                units \in {DurationUnits(duration, level)} })

\* getMask: the first (2 << i) - 1 that covers alphabetSize - 1, as a byte
RECURSIVE MaskLoop(_, _)
MaskLoop(alphabetSize, i) ==
    IF i > 8 THEN 0
    ELSE IF 2 * Pow(2, i) - 1 >= alphabetSize - 1 THEN (2 * Pow(2, i) - 1) % 256
    ELSE MaskLoop(alphabetSize, i + 1)

getMask(alphabetSize) == MaskLoop(alphabetSize, 1)

\* The loop of math.Pow(x, y) for whole x >= 2 and y >= 1:
\*   for i := int64(yi); i != 0; i >>= 1 {
\*       if i&1 == 1 { a1 *= x1; ae += xe }
\*       x1 *= x1; xe <<= 1
\*       if x1 < .5 { x1 += x1; xe-- } }
\* and then Ldexp(a1, ae)
RECURSIVE mathPowLoop(_, _, _, _, _)
mathPowLoop(i, a1, ae, x1, xe) ==
    IF i = 0 THEN [a1 EXCEPT !.e = @ + ae]
    ELSE Only({ mathPowLoop(j, a, e, IF sq.e <= -54 THEN [sq EXCEPT !.e = @ + 1]
                                     ELSE sq,
                            IF sq.e <= -54 THEN 2 * xe - 1 ELSE 2 * xe) :
                j \in {i \div 2},
                a \in {IF i % 2 = 1 THEN Float64Mul(a1, x1) ELSE a1},
                e \in {IF i % 2 = 1 THEN ae + xe ELSE ae},
                sq \in {Float64Mul(x1, x1)} })

\* math.Pow(x, y): x1, xe := Frexp(x) has x1 = m * 2^-53 in [1/2, 1)
mathPow(x, y) ==
    LET f == Float64Of(WideNat(x))
    IN mathPowLoop(y, Float64Of(<<1>>), 0, [f EXCEPT !.e = -53], f.e + 53)

\* int64(math.Pow(float64(g.base), float64(g.timestampLength))): the power
\* itself while it is within the model's integers (a float64 holds every
\* whole number below 2^53), and the rounded power as a wide number beyond
calculateMaxTimestamp(base, timestampLength) ==
    IF PowFits(base, timestampLength, 2147483647)
    THEN Pow(base, timestampLength)
    ELSE Float64ToInt64(mathPow(base, timestampLength))

\* New: [g |-> the pointer to the generator, <<>> when nil, and <<generator>>
\* otherwise; err |-> the error or NoErr; args |-> the numbers the message
\* ErrTotalLength goes on with].  With a nil TimestampEnd the end
\* is TimestampStart.AddDate(10000, 0, 0), and end.Sub(start) is the
\* greatest Duration.  g.alphabet is the sorted string as its bytes.
New(cfg0) ==
    LET cfg1 == IF cfg0.Alphabet = <<>>
                THEN [cfg0 EXCEPT !.Alphabet = DefaultConfig.Alphabet] ELSE cfg0
    IN
    IF GoLen(cfg1.Alphabet) > 255 THEN [g |-> <<>>, err |-> ErrAlphabetLong]
    ELSE
    LET cfg2 == IF cfg1.TotalLength = 0
                THEN [cfg1 EXCEPT !.TotalLength = DefaultConfig.TotalLength]
                ELSE cfg1
        cfg3 == IF cfg2.TimestampLevel = ""
                THEN [cfg2 EXCEPT !.TimestampLevel = DefaultConfig.TimestampLevel]
                ELSE cfg2
        cfg == IF cfg3.MaxSortableRate = ""
               THEN [cfg3 EXCEPT !.MaxSortableRate = DefaultConfig.MaxSortableRate]
               ELSE cfg3
        verr == validateConfig(cfg)
    IN
    IF verr # NoErr THEN [g |-> <<>>, err |-> verr]
    ELSE
    Only({
    IF cfg.TotalLength < timestampLength + chronoLength + 1
    THEN [g |-> <<>>, err |-> ErrTotalLength,
          args |-> <<timestampLength + chronoLength + 1, timestampLength,
                     chronoLength>>]
    ELSE
    [g |-> <<[alphabet |-> alphabet,
            base |-> Len(alphabet),
            totalLength |-> cfg.TotalLength,
            timestampLength |-> timestampLength,
            timestampLevel |-> cfg.TimestampLevel,
            chronoLength |-> chronoLength,
            maxTimestamp |-> calculateMaxTimestamp(Len(alphabet), timestampLength),
            maxSortableRate |-> cfg.MaxSortableRate,
            lastTimeSpan |-> 0,
            lastID |-> <<>>,
            lastChronoPart |-> <<>>,
            overflowedChrono |-> GoRepeat(alphabet[1], chronoLength),
            overflowedChronoRandom |->
                GoRepeat(alphabet[1], cfg.TotalLength - timestampLength),
            poolSize |-> PoolSize,
            poolOffset |-> 0,
            mask |-> getMask(Len(alphabet))]>>,
     err |-> NoErr] :
       timestampLength \in
           {calculateTimestampLength(
                GoLen(cfg.Alphabet),
                IF cfg.TimestampEnd = <<>> THEN MaxDuration
                ELSE WideNat(cfg.TimestampEnd[1]),
                cfg.TimestampLevel)},
       chronoLength \in
           {calculateChronoLength(GoLen(cfg.Alphabet), cfg.MaxSortableRate,
                                  cfg.TimestampLevel)},
       alphabet \in {Utf8(sortAlphabet(cfg.Alphabet))} })

\* What New returns in the builds of the program: where maxTimestamp is
\* beyond int64, the conversion yields the least int64 on amd64 and the
\* greatest on arm64
Builds(r) ==
    IF r.g = <<>> \/ PowFits(r.g[1].base, r.g[1].timestampLength, 2147483647)
    THEN {r}
    ELSE IF r.g[1].maxTimestamp # OutOfInt64 THEN {r}
    ELSE { [r EXCEPT !.g[1].maxTimestamp = m] :
           m \in { WideNeg(TwoTo[63]), WideSub(TwoTo[63], <<1>>) } }

\* The generators whose maxTimestamp is within the model's integers
NarrowMax(gen) == PowFits(gen.base, gen.timestampLength, 2147483647)

\* timespan >= g.maxTimestamp for a timespan within the model's integers
ReachedMax(gen, timespan) ==
    IF NarrowMax(gen) THEN timespan >= gen.maxTimestamp
    ELSE gen.maxTimestamp[1] < 0

\* timespan > g.maxTimestamp for a timespan within the model's integers
PassedMax(gen, timespan) ==
    IF NarrowMax(gen) THEN timespan > gen.maxTimestamp
    ELSE gen.maxTimestamp[1] < 0

(***************************************************************************)
(* Go: the codec, the cascade and the random pool (generator.go).          *)
(***************************************************************************)
\* int64(t.Sub(g.timestampStart) / g.getTimestampDuration()) for an instant
\* t within the model's integers: less than a minute from timestampStart
getTimespan(gen, t) ==
    IF GoWideLevel(gen.timestampLevel) THEN 0
    ELSE Quot(t, getTimestampDuration(gen.timestampLevel))

\* The loop of encodeTimestamp: `result` is the builder, least significant
\* digit first.  g.alphabet[idx] with idx < 0 panics.
RECURSIVE EncodeLoop(_, _, _, _)
EncodeLoop(gen, remaining, i, result) ==
    IF i >= gen.timestampLength THEN [panic |-> FALSE, s |-> result]
    ELSE LET idx == Rem(remaining, gen.base)
         IN IF idx < 0 THEN [panic |-> TRUE, s |-> <<>>]
            ELSE EncodeLoop(gen, Quot(remaining, gen.base), i + 1,
                            Append(result, gen.alphabet[idx + 1]))

\* encodeTimestamp: [panic, s]; the builder is reversed rune by rune
encodeTimestamp(gen, timestamp) ==
    IF timestamp = 0
    THEN [panic |-> FALSE, s |-> GoRepeat(gen.alphabet[1], gen.timestampLength)]
    ELSE LET r == EncodeLoop(gen, timestamp, 0, <<>>)
         IN IF r.panic THEN r
            ELSE [panic |-> FALSE, s |-> Utf8(Reverse(Runes(r.s)))]

\* The loop of incrementSymbols, i counting down from len(chars) - 1
RECURSIVE IncrementLoop(_, _, _)
IncrementLoop(alphabet, chars, i) ==
    IF i < 0 THEN chars
    ELSE LET currentIndex == IndexOf(alphabet, chars[i + 1])
         IN IF currentIndex < Len(alphabet) - 1
            THEN [chars EXCEPT ![i + 1] = alphabet[currentIndex + 2]]
            ELSE IncrementLoop(alphabet, [chars EXCEPT ![i + 1] = alphabet[1]],
                               i - 1)

\* incrementSymbols that steps two values up
incrementSymbols_Twice(gen, symbols) ==
    IncrementLoop(gen.alphabet,
                  IncrementLoop(gen.alphabet, symbols, Len(symbols) - 1),
                  Len(symbols) - 1)

incrementSymbols(gen, symbols) ==
    IncrementLoop(gen.alphabet, symbols, Len(symbols) - 1)

\* fillCharPool: rand.Read refills charPool and poolOffset returns to 0.
\* Every pool byte is read at most once after a refill, so the model draws
\* a byte when it is read: `bytes` is the stream of bytes the pool yields
\* to this call and `k` the number of them already read.
fillCharPool(poolOffset) == 0

\* getRandomChar: [ok, char, poolOffset, k]; ok is FALSE when the stream
\* ends before a byte is accepted
RECURSIVE getRandomChar(_, _, _, _)
getRandomChar(gen, poolOffset, bytes, k) ==
    LET off1 == poolOffset + 1
        off == IF off1 >= gen.poolSize THEN fillCharPool(off1) ELSE off1
    IN IF k >= Len(bytes)
       THEN [ok |-> FALSE, char |-> 0, poolOffset |-> off, k |-> k]
       ELSE LET randomIndex == BitAnd(gen.mask, bytes[k + 1])
            IN IF randomIndex >= Len(gen.alphabet)
               THEN getRandomChar(gen, off, bytes, k + 1)
               ELSE [ok |-> TRUE, char |-> gen.alphabet[randomIndex + 1],
                     poolOffset |-> off, k |-> k + 1]

\* The loop of generateRandomPart
RECURSIVE RandomPartLoop(_, _, _, _, _, _)
RandomPartLoop(gen, poolOffset, bytes, k, i, acc) ==
    IF i >= gen.totalLength - gen.timestampLength - gen.chronoLength
    THEN [ok |-> TRUE, s |-> acc, poolOffset |-> poolOffset, k |-> k]
    ELSE LET c == getRandomChar(gen, poolOffset, bytes, k)
         IN IF ~c.ok
            THEN [ok |-> FALSE, s |-> acc, poolOffset |-> c.poolOffset, k |-> c.k]
            ELSE RandomPartLoop(gen, c.poolOffset, bytes, c.k, i + 1,
                                Append(acc, c.char))

generateRandomPart(gen, bytes) ==
    RandomPartLoop(gen, gen.poolOffset, bytes, 0, 0, <<>>)

(***************************************************************************)
(* Go: Generate and Decode.                                                *)
(* Generate's result: kind "ok" (id), "err" (err), "panic" (a runtime      *)
(* panic: slice bounds or index out of range), or "starved" (the byte      *)
(* stream ended inside the rejection sampling); g is the generator as the  *)
(* call leaves it and k the number of pool bytes it read.                  *)
(***************************************************************************)
GenResult(kind, id, err, gen, k) ==
    [kind |-> kind, id |-> id, err |-> err, g |-> gen, k |-> k]

\* The branch `timespan == g.lastTimeSpan`
GenerateSameTimespan(gen0, bytes) ==
    LET gen1 == IF gen0.lastChronoPart = <<>>
                THEN [gen0 EXCEPT !.lastChronoPart =
                         GoRepeat(gen0.alphabet[1], gen0.chronoLength)]
                ELSE gen0
        chronoPart == incrementSymbols(gen1, gen1.lastChronoPart)
    IN
    IF chronoPart # gen1.overflowedChrono
    THEN LET r == generateRandomPart(gen1, bytes)
             gen2 == [gen1 EXCEPT !.lastChronoPart = chronoPart,
                                  !.poolOffset = r.poolOffset]
         IN IF ~r.ok THEN GenResult("starved", <<>>, NoErr, gen2, r.k)
            ELSE IF Len(gen2.lastID) < gen2.timestampLength
            THEN GenResult("panic", <<>>, NoErr, gen2, r.k)
            ELSE LET id == GoSlice(gen2.lastID, 0, gen2.timestampLength)
                           \o chronoPart \o r.s
                 IN GenResult("ok", id, NoErr, [gen2 EXCEPT !.lastID = id], r.k)
    ELSE IF Len(gen1.lastID) < gen1.timestampLength
    THEN GenResult("panic", <<>>, NoErr, gen1, 0)
    ELSE LET chronoRandomPart ==
                 GoSlice(gen1.lastID, gen1.timestampLength, Len(gen1.lastID))
             incremented == incrementSymbols(gen1, chronoRandomPart)
         IN IF incremented # gen1.overflowedChronoRandom
            THEN LET id == GoSlice(gen1.lastID, 0, gen1.timestampLength)
                           \o incremented
                 IN GenResult("ok", id, NoErr, [gen1 EXCEPT !.lastID = id], 0)
            ELSE GenResult("err", <<>>, ErrRate, gen1, 0)

\* The branch "New timestamp"
GenerateNewTimespan(gen0, timespan, bytes) ==
    LET gen1 == [gen0 EXCEPT !.lastTimeSpan = timespan]
        timestampPart == encodeTimestamp(gen1, timespan)
    IN
    IF timestampPart.panic THEN GenResult("panic", <<>>, NoErr, gen1, 0)
    ELSE LET gen2 == [gen1 EXCEPT !.lastChronoPart = gen1.overflowedChrono]
             r == generateRandomPart(gen2, bytes)
             gen3 == [gen2 EXCEPT !.poolOffset = r.poolOffset]
         IN IF ~r.ok THEN GenResult("starved", <<>>, NoErr, gen3, r.k)
            ELSE LET id == timestampPart.s \o gen3.lastChronoPart \o r.s
                 IN GenResult("ok", id, NoErr, [gen3 EXCEPT !.lastID = id], r.k)

\* Generate that records the bucket it read before it checks the bound
Generate_RecordsFirst(gen, t, bytes) ==
    LET timespan == getTimespan(gen, t)
    IN IF ReachedMax(gen, timespan)
       THEN GenResult("err", <<>>, ErrTimestamp,
                      [gen EXCEPT !.lastTimeSpan = timespan], 0)
       ELSE IF timespan = gen.lastTimeSpan
       THEN GenerateSameTimespan(gen, bytes)
       ELSE GenerateNewTimespan(gen, timespan, bytes)

\* Generate with the bound checked by `timespan > g.maxTimestamp`
Generate_StrictBound(gen, t, bytes) ==
    LET timespan == getTimespan(gen, t)
    IN IF PassedMax(gen, timespan)
       THEN GenResult("err", <<>>, ErrTimestamp, gen, 0)
       ELSE IF timespan = gen.lastTimeSpan
       THEN GenerateSameTimespan(gen, bytes)
       ELSE GenerateNewTimespan(gen, timespan, bytes)

\* Generate, between g.mu.Lock() and the deferred g.mu.Unlock(); t is the
\* value of time.Now()
Generate(gen, t, bytes) ==
    LET timespan == getTimespan(gen, t)
    IN IF ReachedMax(gen, timespan)
       THEN GenResult("err", <<>>, ErrTimestamp, gen, 0)
       ELSE IF timespan = gen.lastTimeSpan
       THEN GenerateSameTimespan(gen, bytes)
       ELSE GenerateNewTimespan(gen, timespan, bytes)

ErrIdLength == "invalid ID length"
ErrIdChars == "ID contains invalid characters"

\* The timestamp loop of Decode over the runes of the timestamp field
RECURSIVE GoDecodeLoop(_, _, _, _)
GoDecodeLoop(gen, runes, i, timestamp) ==
    IF i > Len(runes) THEN timestamp
    ELSE GoDecodeLoop(gen, runes, i + 1,
                      timestamp * gen.base + IndexRune(gen.alphabet, runes[i]))

\* The timestamp of Decode for the runes lo..hi of a field whose value is
\* beyond the model's integers: the value of the first half times the base
\* to the length of the second, plus the value of the second, a wide number
RECURSIVE WideDecode(_, _, _, _)
WideDecode(gen, runes, lo, hi) ==
    IF lo > hi THEN <<0>>
    ELSE IF lo = hi THEN WideNat(IndexRune(gen.alphabet, runes[lo]))
    ELSE Only({ WideAdd(WideMul(WideDecode(gen, runes, lo, mid),
                                WidePow(gen.base, hi - mid)),
                        WideDecode(gen, runes, mid + 1, hi)) :
                mid \in {(lo + hi) \div 2} })

\* g.getTimestampDuration() * time.Duration(timestamp), an int64
DecodeDuration(gen, runes) ==
    IF NarrowMax(gen) /\ ~GoWideLevel(gen.timestampLevel)
       /\ PowFits(gen.base, gen.timestampLength,
                  2147483647 \div getTimestampDuration(gen.timestampLevel))
    THEN getTimestampDuration(gen.timestampLevel)
         * GoDecodeLoop(gen, runes, 1, 0)
    ELSE LET timestamp ==
                 IF NarrowMax(gen) THEN WideNat(GoDecodeLoop(gen, runes, 1, 0))
                 ELSE WideInt64(WideMod64(WideDecode(gen, runes, 1, Len(runes))))
             d == Int64Mul(WideTimestampDuration(gen.timestampLevel), timestamp)
         IN IF d[1] < 0 THEN d ELSE Narrow(d)

\* Decode: [err, date, chronoPart, randomPart]; id is the string's bytes,
\* date is <<t>> for the instant t nanoseconds after timestampStart (a wide
\* number beyond the model's integers) and <<>> for the zero time.Time{}
Decode(gen, id) ==
    IF Len(id) # gen.totalLength
    THEN [err |-> ErrIdLength, date |-> <<>>, chronoPart |-> <<>>, randomPart |-> <<>>]
    ELSE IF \E i \in 1..Len(Runes(id)) :
                IndexRune(gen.alphabet, Runes(id)[i]) = -1
    THEN [err |-> ErrIdChars, date |-> <<>>, chronoPart |-> <<>>, randomPart |-> <<>>]
    ELSE LET timestampPart == GoSlice(id, 0, gen.timestampLength)
         IN [err |-> NoErr,
             date |-> <<DecodeDuration(gen, Runes(timestampPart))>>,
             chronoPart |-> GoSlice(id, gen.timestampLength,
                                    gen.timestampLength + gen.chronoLength),
             randomPart |-> GoSlice(id, gen.timestampLength + gen.chronoLength,
                                    Len(id))]

(***************************************************************************)
(* Go: the program.  Goroutines call Generate and Decode on one Generator  *)
(* built by New; the clock only moves forward.                             *)
(***************************************************************************)
NoRet == [kind |-> "none"]

\* No burst recorded: no call has entered a bucket and returned
NoBurst == [entered |-> FALSE, ids |-> <<>>]

\* The variables of the programs that are not running
InitRest ==
    /\ burst = NoBurst
    /\ asg = Nil
    /\ calls = <<>>
    /\ fnRet = NoRet

GoConfig(alphabet, totalLength, end, level, rate) ==
    [Alphabet |-> alphabet, TotalLength |-> totalLength,
     TimestampEnd |-> <<end>>,
     TimestampLevel |-> level, MaxSortableRate |-> rate]

\* The configurations the generator is run with: alphabet "10" twice, and
\* "a" followed by e-acute (U+00E9, two bytes in a Go string)
GoGenConfigs ==
    { GoConfig(<<49, 48>>, 4, 3, "nanosecond", "1_per_second"),
      GoConfig(<<49, 48>>, 4, 1000, "microsecond", "1_per_second"),
      GoConfig(<<97, 233>>, 3, 2, "nanosecond", "100_per_second") }

\* The instants the clock takes.  Before timestampStart: the first instant
\* of bucket -maxTimestamp, of bucket -1, and the last instant before
\* timestampStart.  From timestampStart on: the first instants of every
\* bucket up to maxTimestamp - 1 + ExtraBuckets.
GoClockValues(gen) ==
    LET unit == getTimestampDuration(gen.timestampLevel)
    IN { (0 - gen.maxTimestamp) * unit, 0 - unit, -1 } \cup
       { b * unit + j : b \in 0..(gen.maxTimestamp - 1 + ExtraBuckets),
                        j \in 0..Min(unit - 1, 1) }

SetMin(S) == CHOOSE x \in S : \A y \in S : x <= y

\* The byte streams the random pool may yield to one call
ByteStreams == UNION { [1..n -> 0..MaxByte] : n \in 0..MaxDraws }

\* The string "!": its symbol is outside every modelled alphabet
Foreign == <<33>>

\* The strings handed to Decode while the generator runs
DecodeProbes(last) ==
    IF last = <<>> THEN { <<>>, Foreign }
    ELSE { last, [last EXCEPT ![Len(last)] = Foreign[1]] }

\* The state after New(config) for a config of the set
InitGoOf(configs) ==
    /\ InitRest
    /\ impl = "go"
    /\ cfgIn \in configs
    /\ newRet \in Builds(New(cfgIn))
    /\ g = newRet.g[1]
    /\ now = SetMin(GoClockValues(g))
    /\ mu = 0
    /\ pc = [p \in Procs |-> "idle"]
    /\ ret = [p \in Procs |-> NoRet]
    /\ issued = <<>>
    /\ decRet = NoRet
    /\ tsg = Nil
    /\ tsRet = NoRet
    /\ tsIssued = {}
    /\ tsThrown = FALSE

InitGo == InitGoOf(GoGenConfigs)

tsVars == <<tsg, tsRet, tsIssued, tsThrown>>

\* time passes: the clock reaches its next instant
GoTick ==
    /\ impl = "go"
    /\ \E t \in GoClockValues(g) : t > now
    /\ now' = SetMin({ t \in GoClockValues(g) : t > now })
    /\ decRet' = NoRet
    /\ UNCHANGED <<impl, g, mu, pc, ret, issued, cfgIn, newRet, tsVars, restVars>>

\* a goroutine calls Generate and blocks on g.mu.Lock()
GoCall(p) ==
    /\ impl = "go"
    /\ pc[p] = "idle"
    /\ pc' = [pc EXCEPT ![p] = "lock"]
    /\ decRet' = NoRet
    /\ UNCHANGED <<impl, now, g, mu, ret, issued, cfgIn, newRet, tsVars, restVars>>

\* g.mu.Lock() returns
GoLock(p) ==
    /\ impl = "go"
    /\ pc[p] = "lock"
    /\ mu = 0
    /\ mu' = p
    /\ pc' = [pc EXCEPT ![p] = "body"]
    /\ decRet' = NoRet
    /\ UNCHANGED <<impl, now, g, ret, issued, cfgIn, newRet, tsVars, restVars>>

\* The burst after a Generate call that read the instant t and ended as r:
\* a call that takes the "New timestamp" branch starts a burst, a successful
\* call of the same bucket extends it.  Only the timestamp and chrono fields
\* of the first base^chronoLength identifiers are kept.
Burst(gen, t, r) ==
    LET timespan == getTimespan(gen, t)
        fields == SubSeq(r.id, 1, Min(Len(r.id),
                                      gen.timestampLength + gen.chronoLength))
    IN IF ReachedMax(gen, timespan) THEN burst
       ELSE IF timespan # gen.lastTimeSpan
       THEN [entered |-> r.kind = "ok",
             ids |-> IF r.kind = "ok" THEN <<fields>> ELSE <<>>]
       ELSE IF r.kind = "ok" /\ Len(burst.ids) < Pow(gen.base, gen.chronoLength)
       THEN [burst EXCEPT !.ids = Append(@, fields)]
       ELSE burst

\* the body of Generate, run under the lock
GoGenerate(p) ==
    /\ impl = "go"
    /\ pc[p] = "body"
    /\ \E bytes \in ByteStreams :
         \E r \in {Generate(g, now, bytes)} :
            /\ r.kind # "starved"
            /\ r.k = Len(bytes)
            /\ g' = r.g
            /\ ret' = [ret EXCEPT ![p] =
                         [kind |-> r.kind, id |-> r.id, err |-> r.err,
                          at |-> now, k |-> r.k]]
            /\ issued' = IF r.kind = "ok" THEN r.id ELSE issued
            /\ burst' = Burst(g, now, r)
    /\ pc' = [pc EXCEPT ![p] = "unlock"]
    /\ decRet' = NoRet
    /\ UNCHANGED <<impl, now, mu, cfgIn, newRet, tsVars, asg, calls, fnRet>>

\* a Generate that returns its error without releasing g.mu
GoUnlock_KeepOnError(p) ==
    /\ impl = "go"
    /\ pc[p] = "unlock"
    /\ mu' = IF ret[p].kind = "err" THEN mu ELSE 0
    /\ pc' = [pc EXCEPT ![p] = "idle"]
    /\ ret' = [ret EXCEPT ![p] = NoRet]
    /\ decRet' = NoRet
    /\ UNCHANGED <<impl, now, g, issued, cfgIn, newRet, tsVars, restVars>>

\* the deferred g.mu.Unlock(), and Generate returns to its caller
GoUnlock(p) ==
    /\ impl = "go"
    /\ pc[p] = "unlock"
    /\ mu' = 0
    /\ pc' = [pc EXCEPT ![p] = "idle"]
    /\ ret' = [ret EXCEPT ![p] = NoRet]
    /\ decRet' = NoRet
    /\ UNCHANGED <<impl, now, g, issued, cfgIn, newRet, tsVars, restVars>>

\* a Decode that keeps the string it was given as the last identifier
GoDecode_Caching ==
    /\ impl = "go"
    /\ \E id \in DecodeProbes(issued) :
         /\ decRet' = [kind |-> "decode", id |-> id, r |-> Decode(g, id)]
         /\ g' = [g EXCEPT !.lastID = id]
    /\ UNCHANGED <<impl, now, mu, pc, ret, issued, cfgIn, newRet, tsVars, restVars>>

\* a call of Decode (it takes no lock)
GoDecode ==
    /\ impl = "go"
    /\ \E id \in DecodeProbes(issued) :
         decRet' = [kind |-> "decode", id |-> id, r |-> Decode(g, id)]
    /\ UNCHANGED <<impl, now, g, mu, pc, ret, issued, cfgIn, newRet, tsVars, restVars>>

NextGo ==
    \/ GoTick
    \/ \E p \in Procs : GoCall(p)
    \/ \E p \in Procs : GoLock(p)
    \/ \E p \in Procs : GoGenerate(p)
    \/ \E p \in Procs : GoUnlock(p)
    \/ GoDecode

SpecGo == InitGo /\ [][NextGo]_vars

\* The step GoGenerate(p) takes, as seen on pc: GoGenerate(p) can run in
\* every state where pc[p] = "body" and is the only action that changes
\* pc[p] there
GoBodyEnds(p) ==
    /\ pc[p] = "body"
    /\ pc' = [pc EXCEPT ![p] = "unlock"]

\* The Go program under fair scheduling: a goroutine that can run does run
\* (the body of Generate has no loop that waits and no blocking call), and
\* sync.Mutex hands the lock to a goroutine that keeps waiting for it (its
\* starvation mode), so a Lock() that can return again and again does
\* return.
FairGo ==
    \A p \in Procs :
        /\ SF_vars(GoLock(p))
        /\ WF_pc(GoBodyEnds(p))
        /\ WF_vars(GoUnlock(p))

SpecGoFair == InitGo /\ [][NextGo]_vars /\ FairGo

(***************************************************************************)
(* TypeScript (sortable-id.ts).  A Date is its getTime(), a wide number of *)
(* milliseconds since 1970-01-01T00:00:00Z of either sign, and the host's  *)
(* time zone is UTC.  An instant read from the clock is a wide number of   *)
(* milliseconds after timestampStart, of either sign.  A number is a       *)
(* double, written as the fraction [num, den] in lowest terms that it is   *)
(* exactly: num is a wide number of either sign and den a power of two,    *)
(* <<1>> for a whole number.  The arithmetic on numbers is float64         *)
(* arithmetic: a timespan is the double (endMs - startMs) /                *)
(* LEVEL_TO_MS[level].  Numbers are normal doubles or zero, below 2^400    *)
(* and above 2^-400 in size.                                               *)
(***************************************************************************)
Frac(num, den) == [num |-> num, den |-> den]

\* The double that a fraction is: den is 2^(BitLen(den) - 1)
FracFloat(a) == Float64Near(a.num, FALSE, 1 - BitLen(a.den))

\* m / 2^k in lowest terms, for wide numbers m > 0
RECURSIVE FracLowest(_, _)
FracLowest(m, k) ==
    IF k > 0 /\ m[Len(m)] % 2 = 0 THEN FracLowest(WideQuot(m, 2), k - 1)
    ELSE Frac(m, TwoTo[k])

\* The fraction that a double is
FloatFrac(f) ==
    IF f = Float64Zero THEN Frac(<<0>>, <<1>>)
    ELSE IF Float64Whole(f) THEN Frac(Float64Trunc(f), <<1>>)
    ELSE Only({ Frac(IF f.m[1] < 0 THEN WideNeg(r.num) ELSE r.num, r.den) :
                r \in {FracLowest(WideAbs(f.m), -f.e)} })

\* a < b for numbers
FracLess(a, b) ==
    IF a.den = b.den THEN WideLt(a.num, b.num)
    ELSE WideLt(WideShl(a.num, BitLen(b.den) - 1),
                WideShl(b.num, BitLen(a.den) - 1))

\* Math.floor(a)
FracFloor(a) ==
    IF a.den = <<1>> THEN a.num ELSE WideFloorDivMod(a.num, a.den).q

\* a / b for numbers a >= 0 and b > 0: a / 1 is a, and a quotient of whole
\* numbers that is a whole number below 2^53 is that number
FracQuot(a, b) ==
    IF b = Frac(<<1>>, <<1>>) THEN a
    ELSE Only({ IF qr.r = <<0>> THEN Frac(qr.q, <<1>>)
                ELSE FloatFrac(Float64Quot(FracFloat(a), FracFloat(b))) :
                qr \in {IF a.den = <<1>> /\ b.den = <<1>>
                           /\ WideLess(a.num, WideMul(b.num, TwoTo[53]))
                        THEN WideDivMod(a.num, b.num)
                        ELSE [q |-> <<0>>, r |-> <<1>>]} })

(***************************************************************************)
(* Math.log and Math.pow as V8 computes them: its ieee754::log and pow     *)
(* follow fdlibm's e_log.c and e_pow.c, and are run here operation by      *)
(* operation in float64 arithmetic, for arguments and results that are     *)
(* normal numbers.  The statements of the two functions are data, in       *)
(* postfix notation, run by Float64Run.                                    *)
(***************************************************************************)
\* The constants of ieee754::log, each by the four 16-bit words of its
\* bits: ln2_hi is 3fe62e42 fee00000
LogConstants ==
    [ln2_hi |-> Float64Bits(<<16358, 11842, 65248, 0>>),
     ln2_lo |-> Float64Bits(<<15850, 14831, 13689, 15478>>),
     Lg1 |-> Float64Bits(<<16357, 21845, 21845, 21907>>),
     Lg2 |-> Float64Bits(<<16345, 39321, 39319, 64004>>),
     Lg3 |-> Float64Bits(<<16338, 18724, 37922, 37721>>),
     Lg4 |-> Float64Bits(<<16332, 29125, 7566, 30895>>),
     Lg5 |-> Float64Bits(<<16327, 18020, 38603, 990>>),
     Lg6 |-> Float64Bits(<<16323, 39433, 53368, 50847>>),
     Lg7 |-> Float64Bits(<<16322, 61714, 57150, 21060>>),
     half |-> Float64Bits(<<16352, 0, 0, 0>>),
     one |-> Float64Bits(<<16368, 0, 0, 0>>),
     two |-> Float64Bits(<<16384, 0, 0, 0>>),
     third |-> Float64Bits(<<16341, 21845, 21845, 21845>>)]

\* log(x) for |f| < 2^-20, where x = 2^k * (1 + f):
\* R = f*f*(0.5-0.33333333333333333*f), and f - R or
\* dk*ln2_hi-((R-dk*ln2_lo)-f)
LogNearOne(k) ==
    << <<"f", <<"x", "one", "-">>>>,
       <<"R", <<"f", "f", "*", "half", "third", "f", "*", "-", "*">>>>,
       <<"result",
         IF k = 0 THEN <<"f", "R", "-">>
         ELSE <<"dk", "ln2_hi", "*", "R", "dk", "ln2_lo", "*", "-", "f", "-",
                "-">> >> >>

\* log(x) for f = 0: dk*ln2_hi+dk*ln2_lo
LogPowerOfTwo ==
    << <<"result", <<"dk", "ln2_hi", "*", "dk", "ln2_lo", "*", "+">>>> >>

\* s = f/(2.0+f), z = s*s, w = z*z, t1 = w*(Lg2+w*(Lg4+w*Lg6)),
\* t2 = z*(Lg1+w*(Lg3+w*(Lg5+w*Lg7))), R = t2+t1
LogSeries ==
    << <<"f", <<"x", "one", "-">>>>,
       <<"s", <<"f", "two", "f", "+", "/">>>>,
       <<"z", <<"s", "s", "*">>>>,
       <<"w", <<"z", "z", "*">>>>,
       <<"t1", <<"w", "Lg2", "w", "Lg4", "w", "Lg6", "*", "+", "*", "+",
                 "*">>>>,
       <<"t2", <<"z", "Lg1", "w", "Lg3", "w", "Lg5", "w", "Lg7", "*", "+",
                 "*", "+", "*", "+", "*">>>>,
       <<"R", <<"t2", "t1", "+">>>> >>

\* The end of log(x) when i > 0: hfsq = 0.5*f*f, and f-(hfsq-s*(hfsq+R))
\* or dk*ln2_hi-((hfsq-(s*(hfsq+R)+dk*ln2_lo))-f)
LogMiddle(k) ==
    << <<"hfsq", <<"half", "f", "*", "f", "*">>>>,
       <<"result",
         IF k = 0 THEN <<"f", "hfsq", "s", "hfsq", "R", "+", "*", "-", "-">>
         ELSE <<"dk", "ln2_hi", "*", "hfsq", "s", "hfsq", "R", "+", "*", "dk",
                "ln2_lo", "*", "+", "-", "f", "-", "-">> >> >>

\* The end of log(x) otherwise: f-s*(f-R) or
\* dk*ln2_hi-((s*(f-R)-dk*ln2_lo)-f)
LogOuter(k) ==
    << <<"result",
         IF k = 0 THEN <<"f", "s", "f", "R", "-", "*", "-">>
         ELSE <<"dk", "ln2_hi", "*", "s", "f", "R", "-", "*", "dk", "ln2_lo",
                "*", "-", "f", "-", "-">> >> >>

\* The statements of log(x) for x = 2^k * (1 + f), hx the upper 20 bits of
\* the mantissa of x: (0x000fffff&(2+hx)) < 3 is |f| < 2^-20, and i > 0 is
\* 0x6147a <= hx <= 0x6b851
LogCode(hx, k, exact) ==
    IF hx \in {1048574, 1048575, 0}
    THEN IF exact THEN LogPowerOfTwo ELSE LogNearOne(k)
    ELSE LogSeries \o (IF 398458 <= hx /\ hx <= 440401 THEN LogMiddle(k)
                       ELSE LogOuter(k))

\* Math.log(x) for a float x > 0: x is brought to sqrt(2)/2 < x < sqrt(2)
\* with k counting the halvings (hx >= 0x6a09c is x >= sqrt(2))
MathLog(x) ==
    Only({ IF x.m = TwoTo[52] /\ x.e = -52 THEN Float64Zero
           ELSE Only({ Float64Run(code, 1, Len(code),
                                  [x |-> [m |-> x.m, e |-> x.e - k],
                                   dk |-> Float64Of(WideOf(k))]
                                  @@ LogConstants)["result"] :
                       code \in {LogCode(hx, k, x.m = TwoTo[52])} }) :
           hx \in {Float64HighWord(x) % 1048576},
           k \in {x.e + 52
                  + (IF Float64HighWord(x) % 1048576 >= 434332 THEN 1 ELSE 0)} })

\* The constants of ieee754::pow; bp, dp_h and dp_l are arrays of two
\* numbers, here bp[1], dp_h[1] and dp_l[1], the others being 1, 0 and 0
PowConstants ==
    [bp1 |-> Float64Bits(<<16376, 0, 0, 0>>),
     dp_h1 |-> Float64Bits(<<16354, 47107, 16384, 0>>),
     dp_l1 |-> Float64Bits(<<15948, 65003, 17359, 53254>>),
     L1 |-> Float64Bits(<<16355, 13107, 13107, 13059>>),
     L2 |-> Float64Bits(<<16347, 28086, 56175, 44031>>),
     L3 |-> Float64Bits(<<16341, 21845, 20879, 9805>>),
     L4 |-> Float64Bits(<<16337, 29792, 43293, 16641>>),
     L5 |-> Float64Bits(<<16333, 34378, 37833, 56165>>),
     L6 |-> Float64Bits(<<16330, 32296, 19013, 20207>>),
     P1 |-> Float64Bits(<<16325, 21845, 21845, 21822>>),
     P2 |-> Float64Bits(<<48998, 49516, 5822, 48531>>),
     P3 |-> Float64Bits(<<16145, 22122, 44837, 56876>>),
     P4 |-> Float64Bits(<<48827, 48449, 50642, 27633>>),
     P5 |-> Float64Bits(<<15974, 14185, 29374, 42192>>),
     lg2 |-> Float64Bits(<<16358, 11842, 65274, 14831>>),
     lg2_h |-> Float64Bits(<<16358, 11843, 0, 0>>),
     lg2_l |-> Float64Bits(<<48672, 23649, 3240, 27705>>),
     cp |-> Float64Bits(<<16366, 50953, 56378, 1021>>),
     cp_h |-> Float64Bits(<<16366, 50953, 57344, 0>>),
     cp_l |-> Float64Bits(<<48702, 12256, 5211, 501>>),
     one |-> Float64Bits(<<16368, 0, 0, 0>>),
     two |-> Float64Bits(<<16384, 0, 0, 0>>),
     three |-> Float64Bits(<<16392, 0, 0, 0>>)]

\* pow(x, y), first half: z = y * log2(x), as p_l + p_h.  ax is x brought
\* to sqrt(3/2)/2 < ax/bp < sqrt(3/2) and t its exponent n;
\*   u = ax-bp[k]; v = one/(ax+bp[k]); ss = u*v; s_h = ss with the low word
\*   cleared; t_l = ax - (t_h-bp[k]); s_l = v*((u-s_h*t_h)-s_h*t_l);
\*   s2 = ss*ss; r = s2*s2*(L1+s2*(L2+s2*(L3+s2*(L4+s2*(L5+s2*L6)))));
\*   r += s_l*(s_h+ss); s2 = s_h*s_h; t_h = 3.0+s2+r, low word cleared;
\*   t_l = r-((t_h-3.0)-s2); u = s_h*t_h; v = s_l*t_h+t_l*ss;
\*   p_h = u+v, low word cleared; p_l = v-(p_h-u); z_h = cp_h*p_h;
\*   z_l = cp_l*p_h+p_l*cp+dp_l[k]; t1 = (((z_h+z_l)+dp_h[k])+t), low word
\*   cleared; t2 = z_l-(((t1-t)-dp_h[k])-z_h); y1 = y, low word cleared;
\*   p_l = (y-y1)*t1+y*t2; p_h = y1*t1; z = p_l+p_h
PowLog2 ==
    << <<"u", <<"ax", "bp", "-">>>>,
       <<"v", <<"one", "ax", "bp", "+", "/">>>>,
       <<"ss", <<"u", "v", "*">>>>,
       <<"s_h", <<"ss", "high">>>>,
       <<"t_l", <<"ax", "t_h", "bp", "-", "-">>>>,
       <<"s_l", <<"v", "u", "s_h", "t_h", "*", "-", "s_h", "t_l", "*", "-",
                  "*">>>>,
       <<"s2", <<"ss", "ss", "*">>>>,
       <<"r", <<"s2", "s2", "*", "L1", "s2", "L2", "s2", "L3", "s2", "L4",
                "s2", "L5", "s2", "L6", "*", "+", "*", "+", "*", "+", "*",
                "+", "*", "+", "*">>>>,
       <<"r", <<"r", "s_l", "s_h", "ss", "+", "*", "+">>>>,
       <<"s2", <<"s_h", "s_h", "*">>>>,
       <<"t_h", <<"three", "s2", "+", "r", "+", "high">>>>,
       <<"t_l", <<"r", "t_h", "three", "-", "s2", "-", "-">>>>,
       <<"u", <<"s_h", "t_h", "*">>>>,
       <<"v", <<"s_l", "t_h", "*", "t_l", "ss", "*", "+">>>>,
       <<"p_h", <<"u", "v", "+", "high">>>>,
       <<"p_l", <<"v", "p_h", "u", "-", "-">>>>,
       <<"z_h", <<"cp_h", "p_h", "*">>>>,
       <<"z_l", <<"cp_l", "p_h", "*", "p_l", "cp", "*", "+", "dp_l", "+">>>>,
       <<"t1", <<"z_h", "z_l", "+", "dp_h", "+", "t", "+", "high">>>>,
       <<"t2", <<"z_l", "t1", "t", "-", "dp_h", "-", "z_h", "-", "-">>>>,
       <<"y1", <<"y", "high">>>>,
       <<"p_l", <<"y", "y1", "-", "t1", "*", "y", "t2", "*", "+">>>>,
       <<"p_h", <<"y1", "t1", "*">>>>,
       <<"z", <<"p_l", "p_h", "+">>>> >>

\* pow(x, y), second half: 2^(p_l + p_h) without its whole part t, which
\* is taken off p_h first;
\*   t = p_l+p_h, low word cleared; u = t*lg2_h;
\*   v = (p_l-(t-p_h))*lg2+t*lg2_l; z = u+v; w = v-(z-u); t = z*z;
\*   t1 = z - t*(P1+t*(P2+t*(P3+t*(P4+t*P5))));
\*   r = (z*t1)/((t1-two)-(w+z*w)); z = one-(r-z)
\* with the division of r as V8 has it (fdlibm has (z*t1)/(t1-two)-(w+z*w))
PowExp2 ==
    << <<"p_h", <<"p_h", "whole", "-">>>>,
       <<"t", <<"p_l", "p_h", "+", "high">>>>,
       <<"u", <<"t", "lg2_h", "*">>>>,
       <<"v", <<"p_l", "t", "p_h", "-", "-", "lg2", "*", "t", "lg2_l", "*",
                "+">>>>,
       <<"z", <<"u", "v", "+">>>>,
       <<"w", <<"v", "z", "u", "-", "-">>>>,
       <<"t", <<"z", "z", "*">>>>,
       <<"t1", <<"z", "t", "P1", "t", "P2", "t", "P3", "t", "P4", "t", "P5",
                 "*", "+", "*", "+", "*", "+", "*", "+", "*", "-">>>>,
       <<"r", <<"z", "t1", "*", "t1", "two", "-", "w", "z", "w", "*", "+",
                "-", "/">>>>,
       <<"z", <<"one", "r", "z", "-", "-">>>> >>

\* The variables of pow(x, y) after its first half, for floats x > 0 and y:
\* j is the upper 20 bits of the mantissa of x, k chooses among the arrays
\* (|x| < sqrt(3/2) is 0, |x| < sqrt(3) is 1, and beyond that ax is halved
\* and n is one more), and t_h is the float of the high word
\* ((ix>>1)|0x20000000)+0x00080000+(k<<18)
PowFirst(x, y) ==
    Only({ Float64Run(
               PowLog2, 1, Len(PowLog2),
               [ax |-> [m |-> x.m, e |-> IF up THEN -53 ELSE -52],
                y |-> y,
                t |-> Float64Of(WideOf(x.e + 52 + (IF up THEN 1 ELSE 0))),
                t_h |-> Float64OfHighWord(
                            (((IF up THEN 1071644672 ELSE 1072693248) + j)
                                 \div 2)
                            + 536870912 + 524288 + k * 262144),
                bp |-> IF k = 1 THEN PowConstants.bp1 ELSE PowConstants.one,
                dp_h |-> IF k = 1 THEN PowConstants.dp_h1 ELSE Float64Zero,
                dp_l |-> IF k = 1 THEN PowConstants.dp_l1 ELSE Float64Zero]
               @@ PowConstants) :
           j \in {Float64HighWord(x) % 1048576},
           k \in {IF 235662 < Float64HighWord(x) % 1048576
                     /\ Float64HighWord(x) % 1048576 < 767610
                  THEN 1 ELSE 0},
           up \in {Float64HighWord(x) % 1048576 >= 767610} })

\* The whole number n nearest to z = p_l + p_h, from the high word i of
\* |z|: none when i <= 0x3fe00000 (|z| <= 0.5), and else, with k the
\* exponent of z, n = i + (0x00100000 >> (k+1)), its exponent the new k,
\* and ((n&0x000fffff)|0x00100000) >> (20-k); and the float t of the same
\* value, of the high word n & ~(0x000fffff >> k)
PowWhole(z) ==
    IF Float64HighWord(z) <= 1071644672 THEN [n |-> 0, t |-> Float64Zero]
    ELSE Only({ Only({ [n |-> (IF z.m[1] < 0 THEN -1 ELSE 1)
                              * (((n % 1048576) + 1048576) \div Pow(2, 20 - k)),
                        t |-> Float64Signed(
                                  z.m[1] < 0,
                                  Float64OfHighWord(n - (n % Pow(2, 20 - k))))] :
                       k \in {(n \div 1048576) - 1023} }) :
                n \in {Float64HighWord(z)
                       + Pow(2, 19 - ((Float64HighWord(z) \div 1048576) - 1023))} })

\* The second half of pow(x, y) on the variables of the first: the result
\* is z with n added to its exponent
PowSecond(env) ==
    Only({ Only({ [z EXCEPT !.e = z.e + whole.n] :
                  z \in {Float64Run(PowExp2, 1, Len(PowExp2),
                                    ("whole" :> whole.t) @@ env)["z"]} }) :
           whole \in {PowWhole(env["z"])} })

\* The whole part of the square root of a wide number 0 < t < 2^120, by
\* Newton's iteration from x above the root
RECURSIVE WideSqrtLoop(_, _)
WideSqrtLoop(t, x) ==
    Only({ IF WideLess(y, x) THEN WideSqrtLoop(t, y) ELSE x :
           y \in {WideShr(WideAdd(x, WideDivMod(t, x).q), 1)} })

WideSqrt(t) == WideSqrtLoop(t, TwoTo[60])

\* sqrt(x) for a float x > 0: the root of the mantissa times 2^64, or of
\* twice that when the exponent is odd, rounded to the nearest float
Float64Sqrt(x) ==
    Only({ Float64Round(root, WideMul(root, root) # t,
                        ((x.e - (x.e % 2)) \div 2) - 32) :
           t \in {WideMul(x.m, TwoTo[64 + (x.e % 2)])},
           root \in {WideSqrt(WideMul(x.m, TwoTo[64 + (x.e % 2)]))} })

\* Math.pow(x, y) for a float x > 0 and a float y of less than 2^31 in
\* size, where the result is a normal number: y = 0 gives 1, x = 1 gives
\* 1, y = 1 gives x, y = -1 gives 1 / x, y = 2 gives x * x and y = 0.5
\* gives sqrt(x)
MathPow(x, y) ==
    IF y = Float64Zero \/ x = PowConstants.one THEN PowConstants.one
    ELSE IF y = PowConstants.one THEN x
    ELSE IF y = Float64Neg(PowConstants.one) THEN Float64Quot(PowConstants.one, x)
    ELSE IF y = PowConstants.two THEN Float64Times(x, x)
    ELSE IF y = [PowConstants.one EXCEPT !.e = @ - 1] THEN Float64Sqrt(x)
    ELSE PowSecond(PowFirst(x, y))

\* The days from 1970-01-01 to the day d of the month m (1 to 12) of the
\* year y; a day beyond the end of the month counts on into the next
DaysFromCivil(y0, m, d) ==
    LET y == IF m <= 2 THEN y0 - 1 ELSE y0
        era == y \div 400
        yoe == y - era * 400
        doy == (153 * (IF m > 2 THEN m - 3 ELSE m + 9) + 2) \div 5 + d - 1
        doe == yoe * 365 + yoe \div 4 - yoe \div 100 + doy
    IN era * 146097 + doe - 719468

\* The year, month (1 to 12) and day of the day z days after 1970-01-01
CivilFromDays(z0) ==
    LET z == z0 + 719468
        era == z \div 146097
        doe == z - era * 146097
        yoe == (doe - doe \div 1460 + doe \div 36524 - doe \div 146096) \div 365
        doy == doe - (365 * yoe + yoe \div 4 - yoe \div 100)
        mp == (5 * doy + 2) \div 153
        m == IF mp < 10 THEN mp + 3 ELSE mp - 9
    IN [y |-> yoe + era * 400 + (IF m <= 2 THEN 1 ELSE 0), m |-> m,
        d |-> doy - (153 * mp + 2) \div 5 + 1]

MsPerDay == <<86, 400, 0>>

\* new Date(year, monthIndex, day)
DateOf(year, monthIndex, day) ==
    Only({ IF days < 0 THEN WideNeg(WideMul(WideNat(-days), MsPerDay))
           ELSE WideMul(WideNat(days), MsPerDay) :
           days \in {DaysFromCivil(year, monthIndex + 1, day)} })

\* date.setFullYear(date.getFullYear() + years): the same day of the same
\* month at the same time of day
AddYears(t, years) ==
    LET dayTime == WideFloorDivMod(t, MsPerDay)
        civil == CivilFromDays(WideInt(dayTime.q))
    IN WidePlus(DateOf(civil.y + years, civil.m - 1, civil.d), dayTime.r)

\* MAX_JS_DATE = 8640000000000000
MAX_JS_DATE == <<8, 640, 0, 0, 0, 0>>

\* What stands for the number -Infinity
NegInfinity == "-Infinity"

\* calculateRequiredLength(timespan), the same code in both classes:
\* Math.ceil(Math.log(timespan) / Math.log(this.base)) for a timespan >= 0,
\* where Math.log(0) is -Infinity
JsRequiredLength(base, timespan) ==
    IF timespan.num = <<0>> THEN NegInfinity
    ELSE Only({ WideInt(Float64Ceil(Float64Quot(log[1], log[2]))) :
                log \in {[i \in 1..2 |->
                             MathLog(IF i = 1 THEN FracFloat(timespan)
                                     ELSE Float64Of(WideNat(base)))]} })

\* getMaxDate(), the same code in both classes: start + maxTimestamp * unit
\* in doubles, the Date made of it cut to whole milliseconds (towards zero)
JsMaxDate(timestampStart, maxTimestamp, unit) ==
    Only({ IF Float64Less(Float64Of(MAX_JS_DATE), calculatedTime)
           THEN MAX_JS_DATE
           ELSE Float64Trunc(calculatedTime) :
           calculatedTime \in
               {Float64Sum(Float64Of(timestampStart),
                           Float64Times(FracFloat(maxTimestamp),
                                        FracFloat(unit)))} })

(***************************************************************************)
(* TypeScript: the chrono-based SortableIDGenerator (the class with        *)
(* maxSortableRate).                                                       *)
(***************************************************************************)
LEVEL_TO_MS(level) ==
    CASE level = "millisecond" -> <<1>>
      [] level = "second" -> <<1, 0>>
      [] level = "minute" -> <<60, 0>>
      [] level = "hour" -> <<3, 600, 0>>
      [] level = "day" -> <<86, 400, 0>>
      [] level = "month" -> <<2, 592, 0, 0>>
      [] level = "year" -> <<31, 536, 0, 0>>

TsErrBeforeStart == "End date cannot be before start date"
TsErrTimestamp == "Current time exceeds maximum supported timestamp"
TsErrRate == "Generation rate exceeded"
TsErrAlphabetShort == "Alphabet must contain at least 2 characters"
TsErrAlphabetDup == "Alphabet must contain unique characters"
TsErrTotalLength == "Total length must be at least"
TsErrMaxDatePast ==
    "Max date is in the past, you may need to increase the timestamp length"
TsErrIdLength == "ID must be exactly totalLength characters long"
TsErrIdChars == "ID contains invalid characters"

\* getTimespan for an end date endMs milliseconds after timestampStart:
\* [err, timespan]
Ts_getTimespan(gen, endMs) ==
    IF endMs[1] < 0 THEN [err |-> TsErrBeforeStart, timespan |-> Frac(<<0>>, <<1>>)]
    ELSE [err |-> NoErr,
          timespan |-> FracQuot(Frac(endMs, <<1>>),
                                Frac(LEVEL_TO_MS(gen.timestampLevel), <<1>>))]

\* Math.ceil(idsPerSecond * multiplier)
Ts_RateExp(rate) ==
    CASE rate = "100_per_microsecond" -> 8
      [] rate = "1_per_microsecond" -> 6
      [] rate = "10_per_millisecond" -> 4
      [] rate = "100_per_second" -> 2
      [] rate = "1_per_second" -> 0
      [] OTHER -> 6

\* totalIds reaches 3153600000000000 ('year' at 100_per_microsecond), so it
\* is kept as its digits in the base, least significant first
RECURSIVE NatDigits(_, _)
NatDigits(n, base) ==
    IF n = 0 THEN <<>> ELSE <<n % base>> \o NatDigits(n \div base, base)

RECURSIVE TimesSmall(_, _, _, _)
TimesSmall(digits, k, base, carry) ==
    IF digits = <<>> THEN NatDigits(carry, base)
    ELSE LET v == Head(digits) * k + carry
         IN <<v % base>> \o TimesSmall(Tail(digits), k, base, v \div base)

RECURSIVE TimesTenPow(_, _, _)
TimesTenPow(digits, e, base) ==
    IF e = 0 THEN digits
    ELSE TimesTenPow(TimesSmall(digits, 10, base, 0), e - 1, base)

Ts_TotalIds(rate, level, base) ==
    LET e == Ts_RateExp(rate) + (IF level = "millisecond" THEN -3 ELSE 0)
        m == LevelMantissa(level)
    IN IF e >= 0 THEN TimesTenPow(NatDigits(m, base), e, base)
       ELSE NatDigits((m + Pow(10, -e) - 1) \div Pow(10, -e), base)

\* The low 32 bits of a whole number given by its digits, as two 16-bit
\* halves: Low16 with the carry into the high half still on it
RECURSIVE Low16(_, _)
Low16(digits, base) ==
    IF digits = <<>> THEN 0
    ELSE (Low16(Tail(digits), base) % 65536) * base + Head(digits)

RECURSIVE High16(_, _)
High16(digits, base) ==
    IF digits = <<>> THEN 0
    ELSE (High16(Tail(digits), base) * base + (Low16(digits, base) \div 65536))
             % 65536

\* (x >> 0): the low 32 bits of the whole part of x, read as a signed integer
ToInt32(digits, base) ==
    IF High16(digits, base) >= 32768
    THEN (High16(digits, base) - 65536) * 65536 + (Low16(digits, base) % 65536)
    ELSE High16(digits, base) * 65536 + (Low16(digits, base) % 65536)

\* while (((totalIds / b) >> 0) > 0) { length++; b *= base; }, `quotient` the
\* whole part of totalIds / b
RECURSIVE Ts_ChronoLoop(_, _, _)
Ts_ChronoLoop(quotient, base, length) ==
    IF ToInt32(quotient, base) > 0
    THEN Ts_ChronoLoop(Tail(quotient), base, length + 1)
    ELSE length

Ts_calculateChronoLength(base, rate, level) ==
    LET totalIds == Ts_TotalIds(rate, level, base)
    IN Ts_ChronoLoop(IF totalIds = <<>> THEN <<>> ELSE Tail(totalIds), base, 1)

Ts_calculateRequiredLength(base, timespan) == JsRequiredLength(base, timespan)

\* getMaxDate() of the sync class
Ts_getMaxDate(gen) ==
    JsMaxDate(gen.timestampStart, gen.maxTimestamp,
              Frac(LEVEL_TO_MS(gen.timestampLevel), <<1>>))

\* BUILTIN_TIMESTAMP_END_YEARS
BUILTIN_TIMESTAMP_END_YEARS == 200

\* The constructor, run when the clock reads nowMs milliseconds after the
\* timestampStart it settles on: [g |-> <<generator>>, or <<>> when it
\* throws; err |-> the message thrown or NoErr; args |-> the numbers in the
\* message].  In config an absent alphabet is <<>>, an absent totalLength 0,
\* an absent timestampStart <<>>, an absent timestampLevel or
\* maxSortableRate "".
Ts_constructor(config, nowMs) ==
    LET alphabet == sortAlphabet(IF config.alphabet = <<>> THEN DefaultAlphabet
                                 ELSE config.alphabet)
        base == Len(alphabet)
        totalLength == IF config.totalLength = 0 THEN 32 ELSE config.totalLength
        timestampStart == IF config.timestampStart = <<>> THEN DateOf(2024, 0, 1)
                          ELSE config.timestampStart
        timestampLevel == IF config.timestampLevel = "" THEN "millisecond"
                          ELSE config.timestampLevel
        maxSortableRate == IF config.maxSortableRate = "" THEN "1_per_microsecond"
                           ELSE config.maxSortableRate
    IN
    IF Len(alphabet) < 2 THEN [g |-> <<>>, err |-> TsErrAlphabetShort, args |-> <<>>]
    ELSE IF \E i, j \in 1..Len(alphabet) : i < j /\ alphabet[i] = alphabet[j]
    THEN [g |-> <<>>, err |-> TsErrAlphabetDup, args |-> <<>>]
    ELSE
    Only({ Only({ Only({
        IF totalLength < minRequiredLength
        THEN [g |-> <<>>, err |-> TsErrTotalLength,
              args |-> <<minRequiredLength, timestampLength, chronoLength>>]
        ELSE IF WideLt(WideDiff(Ts_getMaxDate(gen), timestampStart), nowMs)
        THEN [g |-> <<>>, err |-> TsErrMaxDatePast, args |-> <<>>]
        ELSE [g |-> <<gen>>, err |-> NoErr, args |-> <<>>] :
      minRequiredLength \in {timestampLength + chronoLength + 1},
      gen \in
        {[alphabet |-> alphabet,
          base |-> base,
          totalLength |-> totalLength,
          timestampStart |-> timestampStart,
          timestampLength |-> timestampLength,
          chronoLength |-> chronoLength,
          timestampLevel |-> timestampLevel,
          maxTimestamp |-> timespan,
          maxSortableRate |-> maxSortableRate,
          lastTimeSpan |-> Frac(<<0>>, <<1>>),
          lastId |-> <<>>,
          lastChronoPart |-> Repeat(alphabet[1], chronoLength),
          minChronoPart |-> Repeat(alphabet[1], chronoLength),
          minMachineIdPart |->
              Repeat(alphabet[1],
                     totalLength - timestampLength - chronoLength)]} }) :
      timestampLength \in {Ts_calculateRequiredLength(base, timespan)},
      chronoLength \in
        {Ts_calculateChronoLength(base, maxSortableRate, timestampLevel)} }) :
      timespan \in
        {Ts_getTimespan(
             [timestampLevel |-> timestampLevel],
             WideDiff(AddYears(timestampStart, BUILTIN_TIMESTAMP_END_YEARS),
                      timestampStart)).timespan} })

\* The while loop of encodeTimestamp on a whole number that the model's
\* integers hold
RECURSIVE Ts_EncodeLoop(_, _, _)
Ts_EncodeLoop(gen, remaining, result) ==
    IF remaining > 0
    THEN Ts_EncodeLoop(gen, remaining \div gen.base,
                       <<gen.alphabet[(remaining % gen.base) + 1]>> \o result)
    ELSE result

\* The symbols the loop adds in n rounds
RECURSIVE Ts_EncodeRounds(_, _, _)
Ts_EncodeRounds(gen, remaining, n) ==
    IF n = 0 THEN <<>>
    ELSE Append(Ts_EncodeRounds(gen, remaining \div gen.base, n - 1),
                gen.alphabet[(remaining % gen.base) + 1])

\* The greatest number of rounds n with base^n <= 2000000
RoundsAtOnce(base) ==
    CHOOSE n \in 1..20 :
       PowFits(base, n, 2000000) /\ ~PowFits(base, n + 1, 2000000)

\* Math.floor(remaining / this.base) for a whole number `remaining` of 2^53
\* or more that is a float64, and a base of at most 2^20: the quotient is
\* rounded to a float64 before the floor.  The exact quotient of remaining
\* * 2^21 has 54 bits or more.
Ts_FloorQuot(remaining, base) ==
    Only({ Float64Trunc(Float64Round(qr.q, qr.r # 0, -21)) :
           qr \in {WideQuotRem(WideMul(remaining, TwoTo[21]), base)} })

\* The while loop of encodeTimestamp on a wide number.  From 2^53 on the
\* rounded quotient may be the whole number above the exact one, and a
\* round is worked out as the code does; below 2^53 the floor of the
\* rounded quotient is that of the exact one, and RoundsAtOnce rounds are
\* worked out at a time.
RECURSIVE Ts_EncodeWide(_, _, _)
Ts_EncodeWide(gen, remaining, result) ==
    IF WideLess(remaining, <<2, 0, 1>>)
    THEN Ts_EncodeLoop(gen, WideInt(remaining), result)
    ELSE IF WideLess(remaining, TwoTo[53])
    THEN Only({ Ts_EncodeWide(gen, qr.q,
                              Ts_EncodeRounds(gen, qr.r, n) \o result) :
                qr \in {WideQuotRem(remaining, Pow(gen.base, RoundsAtOnce(gen.base)))},
                n \in {RoundsAtOnce(gen.base)} })
    ELSE Only({ Ts_EncodeWide(gen, q,
                              <<gen.alphabet[WideQuotRem(remaining, gen.base).r + 1]>>
                                  \o result) :
                q \in {Ts_FloorQuot(remaining, gen.base)} })

\* What stands for the RangeError ('Invalid count value') that
\* String.prototype.repeat throws for a count below zero
RangeError == <<-1>>

\* result.padStart(this.timestampLength, this.alphabet[0])
PadStart(s, n, c) == IF Len(s) >= n THEN s ELSE Repeat(c, n - Len(s)) \o s

\* encodeTimestamp(timestamp), the same code in both classes
Ts_encodeTimestamp(gen, timestamp) ==
    LET remaining == FracFloor(timestamp)
    IN IF remaining = <<0>>
       THEN IF gen.timestampLength < 0 THEN RangeError
            ELSE Repeat(gen.alphabet[1], gen.timestampLength)
       ELSE PadStart(Ts_EncodeWide(gen, remaining, <<>>), gen.timestampLength,
                     gen.alphabet[1])

\* The for loop of incrementStringPart: the string, or <<-1>> when the loop
\* ends without returning
RECURSIVE Ts_IncrementLoop(_, _, _)
Ts_IncrementLoop(alphabet, chars, i) ==
    IF i < 0 THEN <<-1>>
    ELSE LET currentIndex == IndexOf(alphabet, chars[i + 1])
         IN IF currentIndex < Len(alphabet) - 1
            THEN [chars EXCEPT ![i + 1] = alphabet[currentIndex + 2]]
            ELSE Ts_IncrementLoop(alphabet,
                                  [chars EXCEPT ![i + 1] = alphabet[1]], i - 1)

Ts_incrementStringPart(gen, value) ==
    LET r == Ts_IncrementLoop(gen.alphabet, value, Len(value) - 1)
    IN IF r = <<-1>>
       THEN (IF Len(value) = gen.chronoLength THEN gen.minChronoPart
             ELSE gen.minMachineIdPart)
       ELSE r

TsResult(kind, id, err, gen) == [kind |-> kind, id |-> id, err |-> err, g |-> gen]

\* The branch `timespan === this.lastTimeSpan` of generate
Ts_generateSameTimespan(gen, timespan) ==
    LET newChronoPart == Ts_incrementStringPart(gen, gen.lastChronoPart)
    IN
    IF newChronoPart = gen.minChronoPart
    THEN LET gen1 == [gen EXCEPT !.lastChronoPart = gen.minChronoPart]
             lastMachineId ==
                 JsSlice(gen1.lastId, gen1.timestampLength + gen1.chronoLength,
                         Len(gen1.lastId))
             newMachineId == Ts_incrementStringPart(gen1, lastMachineId)
         IN IF newMachineId = gen1.minMachineIdPart
            THEN TsResult("err", <<>>, TsErrRate, gen1)
            ELSE LET id == Ts_encodeTimestamp(gen1, timespan)
                           \o gen1.lastChronoPart \o newMachineId
                 IN TsResult("ok", id, NoErr, [gen1 EXCEPT !.lastId = id])
    ELSE LET id == Ts_encodeTimestamp(gen, timespan) \o newChronoPart
                   \o JsSlice(gen.lastId, gen.timestampLength + gen.chronoLength,
                              Len(gen.lastId))
         IN TsResult("ok", id, NoErr,
                     [gen EXCEPT !.lastChronoPart = newChronoPart, !.lastId = id])

\* generate(); nowMs is what new Date() reads, in milliseconds after
\* timestampStart, and machineIdPart what genRandomPart() (nanoid's
\* customAlphabet) returns if it is called
Ts_generate(gen, nowMs, machineIdPart) ==
    Only({ IF t.err # NoErr THEN TsResult("err", <<>>, t.err, gen)
           ELSE IF ~FracLess(t.timespan, gen.maxTimestamp)
           THEN TsResult("err", <<>>, TsErrTimestamp, gen)
           ELSE IF t.timespan = gen.lastTimeSpan
           THEN Ts_generateSameTimespan(gen, t.timespan)
           ELSE LET id == Ts_encodeTimestamp(gen, t.timespan) \o gen.minChronoPart
                          \o machineIdPart
                IN TsResult("ok", id, NoErr,
                            [gen EXCEPT !.lastTimeSpan = t.timespan,
                                        !.lastChronoPart = gen.minChronoPart,
                                        !.lastId = id]) :
           t \in {Ts_getTimespan(gen, nowMs)} })

\* n rounds of the for loop of decode from the symbol i of a part, for a
\* timestamp below the base
RECURSIVE Ts_DecodeRounds(_, _, _, _, _)
Ts_DecodeRounds(gen, part, i, n, timestamp) ==
    IF n = 0 THEN timestamp
    ELSE Ts_DecodeRounds(gen, part, i + 1, n - 1,
                         timestamp * gen.base + IndexOf(gen.alphabet, part[i]))

\* The for loop of decode from the symbol i of a part on, RoundsAtOnce
\* rounds at a time
RECURSIVE Ts_DecodeLoop(_, _, _, _)
Ts_DecodeLoop(gen, part, i, timestamp) ==
    IF i > Len(part) THEN timestamp
    ELSE Only({ Ts_DecodeLoop(gen, part, i + n,
                              WideAdd(WideTimes(timestamp, Pow(gen.base, n)),
                                      WideNat(Ts_DecodeRounds(gen, part, i, n, 0)))) :
                n \in {Min(RoundsAtOnce(gen.base), Len(part) - i + 1)} })

\* decode(id): [err, timestamp, chronoPart, machineId]; timestamp is <<t>>
\* for the Date t milliseconds after timestampStart (a Date below 2^53 ms,
\* where the product and the sum are exact); when decode throws, err is the
\* message and nothing is returned (the other fields are empty)
Ts_decode(gen, id) ==
    IF id = <<>> \/ Len(id) # gen.totalLength
    THEN [err |-> TsErrIdLength, timestamp |-> <<>>, chronoPart |-> <<>>,
          machineId |-> <<>>]
    ELSE IF \E i \in 1..Len(id) : IndexOf(gen.alphabet, id[i]) = -1
    THEN [err |-> TsErrIdChars, timestamp |-> <<>>, chronoPart |-> <<>>,
          machineId |-> <<>>]
    ELSE LET timestampPart == JsSlice(id, 0, gen.timestampLength)
             timestamp == Ts_DecodeLoop(gen, timestampPart, 1, <<0>>)
         IN [err |-> NoErr,
             timestamp |-> <<WideMul(timestamp, LEVEL_TO_MS(gen.timestampLevel))>>,
             chronoPart |-> JsSlice(id, gen.timestampLength,
                                    gen.timestampLength + gen.chronoLength),
             machineId |-> JsSlice(id, gen.timestampLength + gen.chronoLength,
                                   Len(id))]

(***************************************************************************)
(* TypeScript: the program.  One thread calls generate() and decode() on   *)
(* one generator; the clock only moves forward.                            *)
(***************************************************************************)
TsConfig(alphabet, totalLength, level, rate, start) ==
    [alphabet |-> alphabet, totalLength |-> totalLength,
     timestampStart |-> start, timestampLevel |-> level,
     maxSortableRate |-> rate]

\* The configurations the generator is run with: alphabets "10", "cab" and
\* "3102", each with a machine id of one symbol behind the timestamp of the
\* 200 years and the chrono field; the default timestampStart and
\* 2000-02-29
TsGenConfigs ==
    { TsConfig(<<49, 48>>, 45, "millisecond", "1_per_second", <<>>),
      TsConfig(<<49, 48>>, 35, "second", "1_per_second", DateOf(2000, 1, 29)),
      TsConfig(<<99, 97, 98>>, 29, "millisecond", "100_per_second", <<>>),
      TsConfig(<<51, 49, 48, 50>>, 25, "millisecond", "10_per_millisecond", <<>>) }

\* The milliseconds from timestampStart to the end date of the constructor
TsRangeMs(gen) ==
    WideDiff(AddYears(gen.timestampStart, BUILTIN_TIMESTAMP_END_YEARS),
             gen.timestampStart)

\* The buckets the clock visits: the first two, the last one below
\* maxTimestamp and ExtraBuckets after it
TsBuckets(maxTimestamp) ==
    { <<0>>, <<1>> } \cup
    { WideAdd(WideSub(FracFloor(maxTimestamp), <<1>>), WideNat(k)) :
          k \in 0..ExtraBuckets }

\* The instants the clock takes, in milliseconds after timestampStart: one
\* millisecond before timestampStart, the first instants of the buckets of
\* TsBuckets, and the last millisecond before maxTimestamp and the first at
\* it
TsClockValues(gen) ==
    LET unit == LEVEL_TO_MS(gen.timestampLevel)
    IN { <<-1>>, WideSub(TsRangeMs(gen), <<1>>), TsRangeMs(gen) }
       \cup { WideAdd(WideMul(b, unit), WideNat(j)) :
                  b \in TsBuckets(gen.maxTimestamp),
                  j \in IF unit = <<1>> THEN {0} ELSE {0, 1} }

\* The earliest instant of S after t
NextInstant(S, t) ==
    CHOOSE u \in S : WideLt(t, u) /\ \A v \in S : WideLt(t, v) => WideLe(u, v)

\* What customAlphabet(alphabet, size)() may return
RandomStrings(alphabet, size) ==
    [1..size -> { alphabet[i] : i \in 1..Len(alphabet) }]

\* The state after `new SortableIDGenerator(config)` for a config of the
\* set, constructed one millisecond before its timestampStart
InitTsOf(configs) ==
    /\ InitRest
    /\ impl = "ts"
    /\ cfgIn \in configs
    /\ now = <<-1>>
    /\ newRet = Ts_constructor(cfgIn, now)
    /\ tsg = newRet.g[1]
    /\ tsRet = NoRet
    /\ tsIssued = {}
    /\ tsThrown = FALSE
    /\ issued = <<>>
    /\ decRet = NoRet
    /\ g = Nil
    /\ mu = 0
    /\ pc = [p \in Procs |-> "idle"]
    /\ ret = [p \in Procs |-> NoRet]

InitTs == InitTsOf(TsGenConfigs)

goVars == <<g, mu, pc, ret>>

\* time passes: the clock reaches its next instant
TsTick ==
    /\ impl = "ts"
    /\ \E instants \in {TsClockValues(tsg)} :
          /\ \E t \in instants : WideLt(now, t)
          /\ now' = NextInstant(instants, now)
    /\ decRet' = NoRet
    /\ UNCHANGED <<impl, tsg, tsRet, tsIssued, tsThrown, issued, cfgIn, newRet,
                   goVars, restVars>>

\* a call of generate().  tsIssued and tsThrown record the identifiers
\* returned and whether rate-exceeded was thrown in the bucket lastTimeSpan.
TsGenerate ==
    /\ impl = "ts"
    /\ \E machineIdPart \in
           RandomStrings(tsg.alphabet,
                         tsg.totalLength - tsg.timestampLength - tsg.chronoLength) :
         \E r \in {Ts_generate(tsg, now, machineIdPart)} :
         \E same \in {r.g.lastTimeSpan = tsg.lastTimeSpan} :
            /\ tsg' = r.g
            /\ tsRet' = [kind |-> r.kind, id |-> r.id, err |-> r.err, at |-> now]
            /\ issued' = IF r.kind = "ok" THEN r.id ELSE issued
            /\ tsIssued' = (IF same THEN tsIssued ELSE {}) \cup
                           (IF r.kind = "ok" THEN {r.id} ELSE {})
            /\ tsThrown' = (same /\ (tsThrown \/ r.err = TsErrRate))
    /\ decRet' = NoRet
    /\ UNCHANGED <<impl, now, cfgIn, newRet, goVars, restVars>>

\* a call of decode()
TsDecode ==
    /\ impl = "ts"
    /\ \E id \in DecodeProbes(issued) :
         decRet' = [kind |-> "decode", id |-> id, r |-> Ts_decode(tsg, id)]
    /\ UNCHANGED <<impl, now, tsg, tsRet, tsIssued, tsThrown, issued, cfgIn,
                   newRet, goVars, restVars>>

NextTs ==
    \/ TsTick
    \/ TsGenerate
    \/ TsDecode

SpecTs == InitTs /\ [][NextTs]_vars

(***************************************************************************)
(* TypeScript: the async SortableIDGenerator (the class with               *)
(* timestampLength and timestampEnd).  Its maxTimestamp is                 *)
(* Math.pow(base, timestampLength) or the timespan to timestampEnd.  At    *)
(* the levels nanosecond and microsecond LEVEL_TO_MS is the double         *)
(* 1 / 1_000_000 or 1 / 1_000.                                             *)
(***************************************************************************)
AsErrTotalLength == "Total length must be greater than timestamp length"
AsErrDefaultStart == "Default start date cannot be in the future"
AsErrMaxDatePast == "Max date is in the past"
AsErrRepeat == "Invalid count value: Infinity"
\* The RangeError of encodeTimestamp, whose message ends with the count
AsErrCount == "Invalid count value"

\* LEVEL_TO_MS of the async class: 1 / 1_000_000 and 1 / 1_000 are doubles
As_LEVEL_TO_MS ==
    [nanosecond |-> FracQuot(Frac(<<1>>, <<1>>), Frac(<<1, 0, 0>>, <<1>>)),
     microsecond |-> FracQuot(Frac(<<1>>, <<1>>), Frac(<<1, 0>>, <<1>>)),
     millisecond |-> Frac(<<1>>, <<1>>),
     second |-> Frac(<<1, 0>>, <<1>>),
     minute |-> Frac(<<60, 0>>, <<1>>),
     hour |-> Frac(<<3, 600, 0>>, <<1>>),
     day |-> Frac(<<86, 400, 0>>, <<1>>),
     month |-> Frac(<<2, 592, 0, 0>>, <<1>>),
     year |-> Frac(<<31, 536, 0, 0>>, <<1>>)]

\* getTimespan for an end date endMs milliseconds after timestampStart:
\* [err, timespan]
As_getTimespan(gen, endMs) ==
    IF endMs[1] < 0
    THEN [err |-> TsErrBeforeStart, timespan |-> Frac(<<0>>, <<1>>)]
    ELSE [err |-> NoErr,
          timespan |-> FracQuot(Frac(endMs, <<1>>),
                                As_LEVEL_TO_MS[gen.timestampLevel])]

\* calculateMaxTimestamp(length): Math.pow(this.base, length)
As_calculateMaxTimestamp(base, length) ==
    FloatFrac(MathPow(Float64Of(WideNat(base)), Float64Of(WideOf(length))))

As_calculateRequiredLength(base, timespan) == JsRequiredLength(base, timespan)

\* getMaxDate(): the Date's getTime()
As_getMaxDate(gen) ==
    JsMaxDate(gen.timestampStart, gen.maxTimestamp,
              As_LEVEL_TO_MS[gen.timestampLevel])

\* The constructor, run when the clock reads nowMs milliseconds after the
\* timestampStart it settles on: [g |-> <<generator>>, or <<>> when it
\* throws; err].  In config an absent alphabet, timestampStart or
\* timestampEnd is <<>>, an absent totalLength or timestampLength 0 and an
\* absent timestampLevel "".  With a timestampEnd at timestampStart the
\* width is -Infinity and String.prototype.repeat throws a RangeError.
As_constructor(config, nowMs) ==
    LET alphabet == sortAlphabet(IF config.alphabet = <<>> THEN DefaultAlphabet
                                 ELSE config.alphabet)
        base == Len(alphabet)
        totalLength == IF config.totalLength = 0 THEN 32 ELSE config.totalLength
        timestampStart == IF config.timestampStart = <<>> THEN DateOf(2024, 0, 1)
                          ELSE config.timestampStart
        timestampLevel == IF config.timestampLevel = "" THEN "millisecond"
                          ELSE config.timestampLevel
        useLength == config.timestampLength # 0
        useEnd == ~useLength /\ config.timestampEnd # <<>>
    IN
    IF Len(alphabet) < 2 THEN [g |-> <<>>, err |-> TsErrAlphabetShort]
    ELSE IF \E i, j \in 1..Len(alphabet) : i < j /\ alphabet[i] = alphabet[j]
    THEN [g |-> <<>>, err |-> TsErrAlphabetDup]
    ELSE
    Only({
    IF useEnd /\ end.err # NoErr THEN [g |-> <<>>, err |-> TsErrBeforeStart]
    ELSE
    Only({ Only({ Only({
        IF ~infinite /\ totalLength <= timestampLength
        THEN [g |-> <<>>, err |-> AsErrTotalLength]
        ELSE IF config.timestampEnd # <<>>
                /\ WideLt(config.timestampEnd, timestampStart)
        THEN [g |-> <<>>, err |-> TsErrBeforeStart]
        ELSE IF config.timestampStart = <<>> /\ nowMs[1] < 0
        THEN [g |-> <<>>, err |-> AsErrDefaultStart]
        ELSE IF WideLt(WideDiff(As_getMaxDate(gen), timestampStart), nowMs)
        THEN [g |-> <<>>, err |-> AsErrMaxDatePast]
        ELSE IF infinite THEN [g |-> <<>>, err |-> AsErrRepeat]
        ELSE [g |-> <<gen>>, err |-> NoErr] :
      gen \in
        {[alphabet |-> alphabet,
          base |-> base,
          totalLength |-> totalLength,
          timestampStart |-> timestampStart,
          timestampLength |-> timestampLength,
          timestampLevel |-> timestampLevel,
          maxTimestamp |-> maxTimestamp,
          overflowedRandomPart |->
              IF infinite THEN <<>>
              ELSE Repeat(alphabet[1], totalLength - timestampLength),
          lastTimeSpan |-> Frac(<<0>>, <<1>>),
          lastId |-> <<>>]} }) :
      maxTimestamp \in
        {IF useEnd THEN end.timespan
         ELSE As_calculateMaxTimestamp(base, timestampLength)} }) :
      infinite \in {useEnd /\ end.timespan.num = <<0>>},
      timestampLength \in
        {IF useLength THEN config.timestampLength
         ELSE IF useEnd THEN As_calculateRequiredLength(base, end.timespan)
         ELSE 11} }) :
      end \in
        {IF useEnd
         THEN As_getTimespan([timestampLevel |-> timestampLevel],
                             WideDiff(config.timestampEnd, timestampStart))
         ELSE [err |-> NoErr, timespan |-> Frac(<<0>>, <<1>>)]} })

\* incrementRandomPart that returns an all-maximum part unchanged
As_incrementRandomPart_Saturating(gen, randomPart) ==
    LET r == Ts_IncrementLoop(gen.alphabet, randomPart, Len(randomPart) - 1)
    IN IF r = <<-1>> THEN randomPart ELSE r

\* incrementRandomPart: the loop is that of incrementStringPart
As_incrementRandomPart(gen, randomPart) ==
    LET r == Ts_IncrementLoop(gen.alphabet, randomPart, Len(randomPart) - 1)
    IN IF r = <<-1>> THEN gen.overflowedRandomPart ELSE r

\* timespan >= this.maxTimestamp for the timespan of the instant nowMs
As_exceeds(gen, nowMs) ==
    ~FracLess(As_getTimespan(gen, nowMs).timespan, gen.maxTimestamp)

\* generate() up to its return, its throw or its `await`: kind is "ok",
\* "err" or "wait" (the random part overflowed and the call waits 1 ms
\* before it calls generate() again).  A new timespan is stored before
\* encodeTimestamp runs, which throws when the timespan is below 1 and
\* timestampLength below 0.  nowMs is what new Date() reads, in
\* milliseconds after timestampStart, randomChar what getRandomChar()
\* returns and randomPart what genRandomPart() returns, if they are called.
\* encodeTimestamp is the same code in both classes.
As_generate(gen, nowMs, randomChar, randomPart) ==
    Only({ IF t.err # NoErr THEN TsResult("err", <<>>, t.err, gen)
           ELSE IF ~FracLess(t.timespan, gen.maxTimestamp)
           THEN TsResult("err", <<>>, TsErrTimestamp, gen)
           ELSE IF t.timespan = gen.lastTimeSpan
           THEN LET lastRandomPart ==
                        JsSlice(gen.lastId, gen.timestampLength, Len(gen.lastId))
                    incremented == As_incrementRandomPart(gen, lastRandomPart)
                IN IF incremented # gen.overflowedRandomPart
                   THEN LET id == JsSlice(gen.lastId, 0, gen.timestampLength)
                                  \o incremented
                        IN TsResult("ok", id, NoErr, [gen EXCEPT !.lastId = id])
                   ELSE TsResult("wait", <<>>, NoErr, gen)
           ELSE LET gen1 == [gen EXCEPT !.lastTimeSpan = t.timespan]
                    timestampPart == Ts_encodeTimestamp(gen1, t.timespan)
                    id == timestampPart \o <<randomChar>> \o randomPart
                IN IF timestampPart = RangeError
                   THEN TsResult("err", <<>>, AsErrCount, gen1)
                   ELSE TsResult("ok", id, NoErr, [gen1 EXCEPT !.lastId = id]) :
           t \in {As_getTimespan(gen, nowMs)} })

(***************************************************************************)
(* TypeScript: the async program.  generate() calls are started one after  *)
(* another on one generator; a call whose random part overflowed waits for *)
(* its 1 ms timer and then calls generate() again.  Timers of one delay    *)
(* fire in the order they were set, and the date a call reads when its     *)
(* timer has fired is whatever the clock has reached: the millisecond in   *)
(* which the timer was set, any number of times over, or a later one.      *)
(***************************************************************************)
AsConfig(alphabet, totalLength, timestampLength, level) ==
    [alphabet |-> alphabet, totalLength |-> totalLength,
     timestampStart |-> DateOf(2024, 0, 1), timestampEnd |-> <<>>,
     timestampLength |-> timestampLength, timestampLevel |-> level]

\* The configurations the generator is run with: alphabets "10" and "cab"
AsGenConfigs ==
    { AsConfig(<<49, 48>>, 4, 2, "millisecond"),
      AsConfig(<<99, 97, 98>>, 3, 1, "millisecond") }

\* The whole milliseconds from timestampStart to maxTimestamp
AsRangeMs(gen) ==
    LET unit == As_LEVEL_TO_MS[gen.timestampLevel]
    IN WideDivMod(WideMul(gen.maxTimestamp.num, unit.num),
                  WideMul(gen.maxTimestamp.den, unit.den)).q

\* The instants the clock takes: one millisecond before timestampStart and
\* every millisecond up to ExtraBuckets beyond the last bucket
AsClockValues(gen) ==
    { <<-1>> } \cup
    { WideNat(t) : t \in 0..(WideInt(AsRangeMs(gen)) - 1 + ExtraBuckets) }

\* getRandomChar() over the whole alphabet: alphabet[byte % alphabet.length]
RandomChars_WholeAlphabet(alphabet) == { alphabet[i] : i \in 1..Len(alphabet) }

\* What getRandomChar() may return: alphabet[byte % (alphabet.length - 1)]
RandomChars(alphabet) == { alphabet[i] : i \in 1..(Len(alphabet) - 1) }

\* The pending timers other than that of call i
PendingBut(i) == { j \in 1..Len(calls) : j # i /\ calls[j].pc = "wait" }

\* The number of blocks of calls that the timer callbacks have closed, the
\* blocks being numbered from 1
BlocksClosed == Cardinality({ calls[j].block : j \in 1..Len(calls) } \ {0})

\* The block of a call once a timer callback has run: the calls started
\* since the callback before it (block 0) make the next block
Closed(block) == IF block = 0 THEN BlocksClosed + 1 ELSE block

\* The state of a call after generate() ended as r at the instant t.
\* `block` is 0 for a call started after the last timer callback and else
\* numbers the calls started between two callbacks, `seq` is the place of
\* this run of generate() among the last runs of the calls, `waits` counts
\* the timers the call has set, up to MaxWaits, and `ticket` is the place
\* of its timer among the `ahead` + 1 pending timers
AsCall(r, t, block, seq, waits, ahead) ==
    [pc |-> IF r.kind = "ok" THEN "done" ELSE r.kind,
     id |-> r.id, err |-> r.err, at |-> t, block |-> block, seq |-> seq,
     waits |-> IF r.kind = "wait" THEN Min(waits + 1, MaxWaits) ELSE waits,
     ticket |-> IF r.kind = "wait" THEN ahead + 1 ELSE 0]

\* The state after `new SortableIDGenerator(config)` for a config of the set
InitAsOf(configs) ==
    /\ impl = "async"
    /\ cfgIn \in configs
    /\ now = <<-1>>
    /\ newRet = As_constructor(cfgIn, now)
    /\ asg = newRet.g[1]
    /\ calls = <<>>
    /\ issued = <<>>
    /\ decRet = NoRet
    /\ burst = NoBurst
    /\ fnRet = NoRet
    /\ g = Nil
    /\ mu = 0
    /\ pc = [p \in Procs |-> "idle"]
    /\ ret = [p \in Procs |-> NoRet]
    /\ tsg = Nil
    /\ tsRet = NoRet
    /\ tsIssued = {}
    /\ tsThrown = FALSE

InitAs == InitAsOf(AsGenConfigs)

\* time passes: the clock reaches its next millisecond
AsTick ==
    /\ impl = "async"
    /\ WideSucc(now) \in AsClockValues(asg)
    /\ now' = WideSucc(now)
    /\ UNCHANGED <<impl, asg, calls, issued, decRet, cfgIn, newRet, burst, fnRet,
                   goVars, tsVars>>

\* the caller starts a generate() call, which runs up to its first await
AsStart ==
    /\ impl = "async"
    /\ Len(calls) < MaxCalls
    /\ \E randomChar \in RandomChars(asg.alphabet),
          randomPart \in RandomStrings(asg.alphabet,
                             asg.totalLength - asg.timestampLength - 1) :
         \E r \in {As_generate(asg, now, randomChar, randomPart)} :
            /\ asg' = r.g
            /\ calls' = Append(calls, AsCall(r, now, 0, Len(calls) + 1, 0,
                                             Cardinality(PendingBut(0))))
            /\ issued' = IF r.kind = "ok" THEN r.id ELSE issued
    /\ UNCHANGED <<impl, now, decRet, cfgIn, newRet, burst, fnRet, goVars,
                   tsVars>>

\* the earliest pending timer fires and its call runs `return await
\* this.generate()`.  The timer runs on the monotonic clock, so new Date()
\* reads the millisecond in which the timer was set or a later one,
\* whichever the clock has reached; the timers behind it move up.
AsResume ==
    /\ impl = "async"
    /\ \E i \in 1..Len(calls) :
         /\ calls[i].pc = "wait"
         /\ calls[i].ticket = 1
         /\ \E randomChar \in RandomChars(asg.alphabet),
               randomPart \in RandomStrings(asg.alphabet,
                                  asg.totalLength - asg.timestampLength - 1) :
              \E r \in {As_generate(asg, now, randomChar, randomPart)} :
                 /\ asg' = r.g
                 /\ calls' = [j \in 1..Len(calls) |->
                                 IF j = i
                                 THEN AsCall(r, now, Closed(calls[i].block),
                                             Len(calls), calls[i].waits,
                                             Cardinality(PendingBut(i)))
                                 ELSE [calls[j] EXCEPT
                                          !.block = Closed(@),
                                          !.seq = IF @ > calls[i].seq
                                                  THEN @ - 1 ELSE @,
                                          !.ticket = IF calls[j].pc = "wait"
                                                     THEN @ - 1 ELSE @]]
                 /\ issued' = IF r.kind = "ok" THEN r.id ELSE issued
    /\ UNCHANGED <<impl, now, decRet, cfgIn, newRet, burst, fnRet, goVars,
                   tsVars>>

NextAs ==
    \/ AsTick
    \/ AsStart
    \/ AsResume

SpecAs == InitAs /\ [][NextAs]_vars

(***************************************************************************)
(* TypeScript: the async program on the smallest generator, with only the  *)
(* history of a call kept that tells one of its runs from the next, and    *)
(* with every timer that was set firing.  As in the program above,         *)
(* `new Date()` need not have advanced by the time a 1 ms timer fires      *)
(* (timers run on the monotonic clock, the date on the wall clock, which   *)
(* may be coarse or set back).                                             *)
(***************************************************************************)
\* The state of a call with the timers fired before it was started left
\* out and `seq` telling a run of generate() from the run before it
AsCallHeld(r, t, waits, turn, ahead) == AsCall(r, t, 0, turn, waits, ahead)

\* the caller starts a generate() call, which runs up to its first await
AsStartHeld ==
    /\ impl = "async"
    /\ Len(calls) < MaxCalls
    /\ \E randomChar \in RandomChars(asg.alphabet),
          randomPart \in RandomStrings(asg.alphabet,
                             asg.totalLength - asg.timestampLength - 1) :
         \E r \in {As_generate(asg, now, randomChar, randomPart)} :
            /\ asg' = r.g
            /\ calls' = Append(calls, AsCallHeld(r, now, 0, 0,
                                                 Cardinality(PendingBut(0))))
            /\ issued' = IF r.kind = "ok" THEN r.id ELSE issued
    /\ UNCHANGED <<impl, now, decRet, cfgIn, newRet, burst, fnRet, goVars,
                   tsVars>>

\* the earliest pending timer fires, whatever the date reads, and its call
\* runs `return await this.generate()`; the timers behind it move up
AsResumeHeld ==
    /\ impl = "async"
    /\ \E i \in 1..Len(calls) :
         /\ calls[i].pc = "wait"
         /\ calls[i].ticket = 1
         /\ \E randomChar \in RandomChars(asg.alphabet),
               randomPart \in RandomStrings(asg.alphabet,
                                  asg.totalLength - asg.timestampLength - 1) :
              \E r \in {As_generate(asg, now, randomChar, randomPart)} :
                 /\ asg' = r.g
                 /\ calls' = [j \in 1..Len(calls) |->
                                 IF j = i
                                 THEN AsCallHeld(r, now, calls[i].waits,
                                                 (calls[i].seq + 1) % 2,
                                                 Cardinality(PendingBut(i)))
                                 ELSE IF calls[j].pc = "wait"
                                 THEN [calls[j] EXCEPT !.ticket = @ - 1]
                                 ELSE calls[j]]
                 /\ issued' = IF r.kind = "ok" THEN r.id ELSE issued
    /\ UNCHANGED <<impl, now, decRet, cfgIn, newRet, burst, fnRet, goVars,
                   tsVars>>

NextAsHeld ==
    \/ AsTick
    \/ AsStartHeld
    \/ AsResumeHeld

\* Alphabet "10", one timestamp symbol and one random symbol: two buckets
\* of two identifiers
AsHeldConfigs == { AsConfig(<<49, 48>>, 2, 1, "millisecond") }

InitAsHeld == InitAsOf(AsHeldConfigs)

\* a timer that was set fires
SpecAsHeld == InitAsHeld /\ [][NextAsHeld]_vars /\ WF_vars(AsResumeHeld)

(***************************************************************************)
(* TypeScript: getMaxDate() of the async generator, over configurations    *)
(* with a timestampEnd and configurations with a timestampLength.          *)
(***************************************************************************)
\* The ten digits, for a base-10 alphabet
Digits == [i \in 1..10 |-> 47 + i]

\* The timestampStart of the configurations: 2024-01-01 and 7 ms after
\* 2000-02-29
DateStarts == { DateOf(2024, 0, 1), WideAdd(DateOf(2000, 1, 29), <<7>>) }

\* The milliseconds from timestampStart to a timestampEnd: 1 to MaxSpan, and
\* as many eighths of a second
DateSpans == { span * k : span \in 1..MaxSpan, k \in {1, 125} }

\* Configurations with a timestampEnd `span` milliseconds after
\* timestampStart, a timestampEnd one hundred years after it, and one at
\* the millisecond 825 of a day 179 years after it
AsEndConfigs ==
    { [alphabet |-> <<48, 49>>, totalLength |-> 32,
       timestampStart |-> start,
       timestampEnd |-> WideAdd(start, WideNat(span)), timestampLength |-> 0,
       timestampLevel |-> level] :
          start \in DateStarts, span \in DateSpans,
          level \in {"millisecond", "second"} }
    \cup { [alphabet |-> <<>>, totalLength |-> 0,
            timestampStart |-> DateOf(2024, 0, 1),
            timestampEnd |-> end, timestampLength |-> 0,
            timestampLevel |-> "day"] :
               end \in { DateOf(2124, 0, 1), <<7, 366, 893, 462, 825>> } }

\* Configurations with a timestampLength; the last two put the maximum
\* date beyond the last Date
AsLengthConfigs ==
    { [AsConfig(<<48, 49>>, 5, 3, level) EXCEPT !.timestampStart = start] :
          start \in DateStarts,
          level \in {"millisecond", "second", "minute", "hour", "day"} }
    \cup { AsConfig(Digits, 20, 9, "day"),
            AsConfig(<<>>, 48, 32, "year") }

InitDate == InitAsOf(AsEndConfigs \cup AsLengthConfigs)

\* a call of getMaxDate()
AsGetMaxDate ==
    /\ impl = "async"
    /\ fnRet = NoRet
    /\ fnRet' = [kind |-> "getMaxDate", out |-> As_getMaxDate(asg)]
    /\ UNCHANGED <<impl, now, issued, decRet, cfgIn, newRet, burst, asg, calls,
                   goVars, tsVars>>

SpecDate == InitDate /\ [][AsGetMaxDate]_vars

(***************************************************************************)
(* New and Decode / decode as functions of their inputs.                   *)
(***************************************************************************)
\* An alphabet of 256 distinct symbols
LongAlphabet == [i \in 1..256 |-> i]

\* The Configs handed to New: alphabets "", "a", "e-acute", "aabbcc", "10",
\* "cab" and LongAlphabet; a nil TimestampEnd and ends before the start, at
\* it and after it; a total length (65) that holds the 63 symbols of a
\* timestamp of MaxDuration nanoseconds in base 2
NewConfigs ==
    { [Alphabet |-> a, TotalLength |-> n, TimestampEnd |-> e,
       TimestampLevel |-> l, MaxSortableRate |-> r] :
        a \in { <<>>, <<97>>, <<233>>, <<97, 97, 98, 98, 99, 99>>, <<49, 48>>,
                <<99, 97, 98>>, LongAlphabet },
        n \in { 0, 2, 3, 4, 5, 65 },
        e \in { <<>>, <<-1>>, <<0>>, <<3>>, <<3000>> },
        l \in { "", "nanosecond", "microsecond", "day" },
        r \in { "", "1_per_second", "10_per_nanosecond" } }

\* The configs handed to the constructor of the chrono-based TypeScript
\* class: alphabets absent, "a", "aa", "10" and "cab"; total lengths absent,
\* too short and long enough; the start absent and 2000-02-29
TsNewConfigs ==
    { TsConfig(a, n, l, r, start) :
        a \in { <<>>, <<97>>, <<97, 97>>, <<49, 48>>, <<99, 97, 98>> },
        n \in { 0, 12, 45 },
        l \in { "", "second", "year" },
        r \in { "", "1_per_second" },
        start \in { <<>>, DateOf(2000, 1, 29) } }

\* The configs handed to the constructor of the async TypeScript class:
\* alphabets absent, "a", "aa" and "10"; total lengths absent and 8; a
\* timestampLength absent, 8, 32 and -1; a timestampEnd absent, one
\* millisecond before timestampStart, at it, one second and a hundred
\* years after it; the start absent and given as 2024-01-01
AsNewConfigs ==
    { [alphabet |-> a, totalLength |-> n, timestampStart |-> start,
       timestampEnd |-> e, timestampLength |-> tl, timestampLevel |-> l] :
        a \in { <<>>, <<97>>, <<97, 97>>, <<49, 48>> },
        n \in { 0, 8 },
        start \in { <<>>, DateOf(2024, 0, 1) },
        e \in { <<>>, WideSub(DateOf(2024, 0, 1), <<1>>), DateOf(2024, 0, 1),
                WideAdd(DateOf(2024, 0, 1), <<1, 0>>), DateOf(2124, 0, 1) },
        tl \in { 0, 8, 32, -1 },
        l \in { "", "nanosecond", "year" } }

\* What the clock reads when a TypeScript constructor runs, in milliseconds
\* after the timestampStart: just before it, at it, and 8 * 10^12 ms (253
\* years) after it
NewClock == { <<-1>>, <<0>>, <<8, 0, 0, 0, 0>> }

InitNew ==
    /\ InitRest
    /\ \/ impl = "new" /\ cfgIn \in NewConfigs /\ now = 0
       \/ impl = "tsnew" /\ cfgIn \in TsNewConfigs /\ now \in NewClock
       \/ impl = "asnew" /\ cfgIn \in AsNewConfigs /\ now \in NewClock
    /\ newRet = NoRet
    /\ g = Nil
    /\ mu = 0
    /\ pc = [p \in Procs |-> "idle"]
    /\ ret = [p \in Procs |-> NoRet]
    /\ issued = <<>>
    /\ decRet = NoRet
    /\ tsg = Nil
    /\ tsRet = NoRet
    /\ tsIssued = {}
    /\ tsThrown = FALSE

\* the call New(cfg)
GoNew ==
    /\ impl = "new"
    /\ newRet = NoRet
    /\ newRet' \in Builds(New(cfgIn))
    /\ UNCHANGED <<impl, now, g, mu, pc, ret, issued, decRet, cfgIn, tsVars, restVars>>

\* `new SortableIDGenerator(config)` of the chrono-based class
TsNew ==
    /\ impl = "tsnew"
    /\ newRet = NoRet
    /\ newRet' = Ts_constructor(cfgIn, now)
    /\ UNCHANGED <<impl, now, g, mu, pc, ret, issued, decRet, cfgIn, tsVars, restVars>>

\* `new SortableIDGenerator(config)` of the async class
AsNew ==
    /\ impl = "asnew"
    /\ newRet = NoRet
    /\ newRet' = As_constructor(cfgIn, now)
    /\ UNCHANGED <<impl, now, g, mu, pc, ret, issued, decRet, cfgIn, tsVars, restVars>>

NextNew ==
    \/ GoNew
    \/ TsNew
    \/ AsNew

SpecNew == InitNew /\ [][NextNew]_vars

\* Every string of at most n symbols over the symbols S
RECURSIVE StringsUpTo(_, _)
StringsUpTo(S, n) ==
    IF n = 0 THEN { <<>> }
    ELSE LET shorter == StringsUpTo(S, n - 1)
         IN shorter \cup { Append(s, c) : s \in shorter, c \in S }

Symbols(s) == { s[i] : i \in 1..Len(s) }

\* The strings handed to Decode / decode, as sequences of symbols: up to one
\* symbol longer than an identifier, over the alphabet and a foreign symbol
DecodeInputs(alphabet, totalLength) ==
    StringsUpTo(Symbols(alphabet) \cup Symbols(Foreign), totalLength + 1)

InitDecode == InitGo \/ InitTs

GoDecodeAny ==
    /\ impl = "go"
    /\ decRet = NoRet
    /\ \E id \in DecodeInputs(Runes(g.alphabet), g.totalLength) :
         decRet' = [kind |-> "decode", id |-> Utf8(id), r |-> Decode(g, Utf8(id))]
    /\ UNCHANGED <<impl, now, g, mu, pc, ret, issued, cfgIn, newRet, tsVars, restVars>>

\* The strings handed to decode of a generator whose identifiers are too
\* long to go through them all: the empty string; over the alphabet and a
\* foreign symbol, the strings of one symbol repeated, one symbol shorter
\* than an identifier, as long and one symbol longer; and the all-minimum
\* identifier with one symbol of the timestamp, the chrono field or the
\* machine id replaced
TsDecodeInputs(gen) ==
    LET symbols == Symbols(gen.alphabet) \cup Symbols(Foreign)
        least == Repeat(gen.alphabet[1], gen.totalLength)
    IN { <<>> }
       \cup { Repeat(c, n) : c \in symbols,
                              n \in (gen.totalLength - 1)..(gen.totalLength + 1) }
       \cup { [least EXCEPT ![i] = c] :
                  c \in symbols,
                  i \in { 1, gen.timestampLength, gen.timestampLength + 1,
                          gen.timestampLength + gen.chronoLength,
                          gen.totalLength } }

TsDecodeAny ==
    /\ impl = "ts"
    /\ decRet = NoRet
    /\ \E id \in TsDecodeInputs(tsg) :
         decRet' = [kind |-> "decode", id |-> id, r |-> Ts_decode(tsg, id)]
    /\ UNCHANGED <<impl, now, tsg, tsRet, tsIssued, tsThrown, issued, cfgIn,
                   newRet, goVars, restVars>>

NextDecode == GoDecodeAny \/ TsDecodeAny

SpecDecode == InitDecode /\ [][NextDecode]_vars

(***************************************************************************)
(* The length calculations as functions of their inputs.                   *)
(***************************************************************************)
Rates ==
    {"100_per_microsecond", "1_per_microsecond", "10_per_millisecond",
     "100_per_second", "1_per_second"}

TsLevels == {"year", "month", "day", "hour", "minute", "second", "millisecond"}

\* The TimestampLevel constants, and a level that is none of them
GoLevels ==
    {"nanosecond", "microsecond", "millisecond", "second", "minute", "hour",
     "day", "month", "year"}

NoLevel == "week"

\* A count of units at a power of the base or next to one, or at an end of
\* the counts
NearPower(base, units) ==
    \/ units \in {0, MaxUnits}
    \/ \E k \in 0..8 :
          /\ PowFits(base, k, MaxUnits + 1)
          /\ Pow(base, k) \in {units - 1, units, units + 1}

\* The ends handed to calculateTimestampLength: `units` whole units of the
\* level after the start, and then the first or the last nanosecond of the
\* next unit; every count at the two finest levels and the counts at and
\* next to the powers of the base at the others
GoLengthInputs ==
    { in \in [base : 2..MaxBase, units : 0..MaxUnits,
              level : GoLevels \cup {NoLevel}, last : BOOLEAN] :
        \/ in.level \in {"nanosecond", "microsecond"}
        \/ NearPower(in.base, in.units) }

\* The duration from the start to the end of an input
GoLengthDuration(in) ==
    LET unit == WideTimestampDuration(in.level)
    IN WideAdd(WideMul(WideNat(in.units), unit),
               IF in.last THEN WideSub(unit, <<1>>) ELSE <<0>>)

\* calculateTimestampLength for an end of GoLengthInputs
GoTimestampLength ==
    /\ impl = "go"
    /\ fnRet = NoRet
    /\ \E in \in GoLengthInputs :
         fnRet' = [kind |-> "timestampLength", base |-> in.base,
                   units |-> in.units, level |-> in.level, last |-> in.last,
                   length |-> calculateTimestampLength(in.base,
                                  GoLengthDuration(in), in.level)]
    /\ UNCHANGED <<impl, now, issued, decRet, cfgIn, newRet, burst, asg, calls,
                   goVars, tsVars>>

\* calculateChronoLength for an alphabet size, a rate and a level
TsChronoLength ==
    /\ impl = "ts"
    /\ fnRet = NoRet
    /\ \E base \in 2..MaxBase, rate \in Rates, level \in TsLevels :
         fnRet' = [kind |-> "chronoLength", base |-> base,
                   totalIds |-> Ts_TotalIds(rate, level, base),
                   length |-> Ts_calculateChronoLength(base, rate, level)]
    /\ UNCHANGED <<impl, now, issued, decRet, cfgIn, newRet, burst, asg, calls,
                   goVars, tsVars>>

NextLength ==
    \/ GoTimestampLength
    \/ TsChronoLength

\* The functions are applied in the state after construction
InitLength ==
    \/ InitGoOf({ GoConfig(<<49, 48>>, 4, 3, "nanosecond", "1_per_second") })
    \/ InitTs

SpecLength == InitLength /\ [][NextLength]_vars

(***************************************************************************)
(* The increment operations and getMaxDate as functions of their inputs.   *)
(***************************************************************************)
\* The fields handed to the increment operations, as sequences of symbols:
\* one to MaxField symbols of the alphabet
FieldStrings(alphabet) == StringsUpTo(Symbols(alphabet), MaxField) \ { <<>> }

InitFn == InitGo \/ InitTs \/ InitAs

\* incrementSymbols applied to a field
GoIncrement ==
    /\ impl = "go"
    /\ fnRet = NoRet
    /\ \E s \in FieldStrings(Runes(g.alphabet)) :
         fnRet' = [kind |-> "increment", in |-> s,
                   out |-> Runes(incrementSymbols(g, Utf8(s)))]
    /\ UNCHANGED <<impl, now, issued, decRet, cfgIn, newRet, burst, asg, calls,
                   goVars, tsVars>>

\* incrementStringPart applied to a field
TsIncrement ==
    /\ impl = "ts"
    /\ fnRet = NoRet
    /\ \E s \in FieldStrings(tsg.alphabet) :
         fnRet' = [kind |-> "increment", in |-> s,
                   out |-> Ts_incrementStringPart(tsg, s)]
    /\ UNCHANGED <<impl, now, issued, decRet, cfgIn, newRet, burst, asg, calls,
                   goVars, tsVars>>

\* incrementRandomPart applied to a field
AsIncrement ==
    /\ impl = "async"
    /\ fnRet = NoRet
    /\ \E s \in FieldStrings(asg.alphabet) :
         fnRet' = [kind |-> "increment", in |-> s,
                   out |-> As_incrementRandomPart(asg, s)]
    /\ UNCHANGED <<impl, now, issued, decRet, cfgIn, newRet, burst, asg, calls,
                   goVars, tsVars>>

NextFn ==
    \/ GoIncrement
    \/ TsIncrement
    \/ AsIncrement

SpecFn == InitFn /\ [][NextFn]_vars

(***************************************************************************)
(* Both generators.                                                        *)
(***************************************************************************)
Init == InitGo \/ InitTs

Next == NextGo \/ NextTs

Spec == Init /\ [][Next]_vars

(***************************************************************************)
(* The diagnostic operations, called between Generate / generate() calls.  *)
(***************************************************************************)
\* GetMaxDate: the nanoseconds from timestampStart to the date returned (a
\* wide number beyond the model's integers); `clamped` when the int64
\* duration is negative and maxAllowedTime is returned instead.
\* maxAllowedTime, time.Unix(1<<62, 0), is after timestampStart plus any
\* Duration.
GetMaxDate(gen) ==
    IF NarrowMax(gen) /\ ~GoWideLevel(gen.timestampLevel)
       /\ gen.maxTimestamp
            <= 2147483647 \div getTimestampDuration(gen.timestampLevel)
    THEN [clamped |-> FALSE,
          after |-> getTimestampDuration(gen.timestampLevel) * gen.maxTimestamp]
    ELSE LET maxTimestamp == IF NarrowMax(gen) THEN WideNat(gen.maxTimestamp)
                             ELSE gen.maxTimestamp
             duration == Int64Mul(WideTimestampDuration(gen.timestampLevel),
                                  maxTimestamp)
         IN [clamped |-> duration[1] < 0,
             after |-> IF duration[1] < 0 THEN 0 ELSE Narrow(duration)]

\* PrintInfo that takes a character from the pool
PrintInfo_DrawsChar(gen) ==
    [info |-> [TimestampLength |-> gen.timestampLength,
               EndDate |-> GetMaxDate(gen),
               TotalLength |-> gen.totalLength],
     g |-> [gen EXCEPT !.poolOffset = (gen.poolOffset + 1) % gen.poolSize]]

\* PrintInfo: the GeneratorInfo returned and the generator after the call
PrintInfo(gen) ==
    [info |-> [TimestampLength |-> gen.timestampLength,
               EndDate |-> GetMaxDate(gen),
               TimestampLevel |-> gen.timestampLevel,
               Alphabet |-> gen.alphabet,
               TotalLength |-> gen.totalLength,
               ChronoLength |-> gen.chronoLength,
               MachineIDLength |->
                   gen.totalLength - gen.timestampLength - gen.chronoLength,
               MaxSortableRate |-> gen.maxSortableRate],
     g |-> gen]

\* printInfo() of the sync class
Ts_printInfo(gen) ==
    [info |-> [timestampLength |-> gen.timestampLength,
               chronoLength |-> gen.chronoLength,
               endDate |-> Ts_getMaxDate(gen),
               timestampLevel |-> gen.timestampLevel,
               maxSortableRate |-> gen.maxSortableRate,
               alphabet |-> gen.alphabet,
               totalLength |-> gen.totalLength],
     g |-> gen]

\* PrintInfo() is called; it takes no lock
GoPrintInfo ==
    /\ impl = "go"
    /\ fnRet = NoRet
    /\ \E r \in {PrintInfo(g)} :
         /\ fnRet' = [kind |-> "info", last |-> issued, out |-> r.info]
         /\ g' = r.g
    /\ UNCHANGED <<impl, now, mu, pc, ret, issued, decRet, cfgIn, newRet,
                   burst, asg, calls, tsVars>>

\* printInfo() is called
TsPrintInfo ==
    /\ impl = "ts"
    /\ fnRet = NoRet
    /\ \E r \in {Ts_printInfo(tsg)} :
         /\ fnRet' = [kind |-> "info", last |-> issued, out |-> r.info]
         /\ tsg' = r.g
    /\ UNCHANGED <<impl, now, issued, decRet, cfgIn, newRet, burst, asg, calls,
                   goVars, tsRet, tsIssued, tsThrown>>

NextInfo ==
    \/ GoTick
    \/ \E p \in Procs : GoCall(p)
    \/ \E p \in Procs : GoLock(p)
    \/ \E p \in Procs : GoGenerate(p)
    \/ \E p \in Procs : GoUnlock(p)
    \/ GoPrintInfo
    \/ TsTick
    \/ TsGenerate
    \/ TsPrintInfo

\* One Go and two TypeScript configurations
InitInfo ==
    \/ InitGoOf({ GoConfig(<<49, 48>>, 4, 3, "nanosecond", "1_per_second") })
    \/ InitTsOf({ TsConfig(<<49, 48>>, 45, "millisecond", "1_per_second", <<>>),
                  TsConfig(<<99, 97, 98>>, 29, "millisecond", "100_per_second",
                           <<>>) })

SpecInfo == InitInfo /\ [][NextInfo]_vars

(***************************************************************************)
(* encodeTimestamp as a function of the bucket, applied to two buckets.    *)
(***************************************************************************)
\* The pairs of buckets a < b below base^timestampLength, at most
\* MaxBucketGap apart
BucketPairs(base, timestampLength) ==
    { <<a, b>> \in (0..(Pow(base, timestampLength) - 1))
                     \X (0..(Pow(base, timestampLength) - 1)) :
          a < b /\ b - a <= MaxBucketGap }

\* Such pairs of buckets where there are too many buckets to go through:
\* the pairs that begin at 0, 1, and one or two below a power of the base
WideBucketPairs(base, timestampLength) ==
    LET starts == { <<0>>, <<1>> } \cup
                  { WideSub(WidePow(base, k), WideNat(i)) :
                        k \in 2..timestampLength, i \in 1..2 }
    IN { ab \in { <<a, WideAdd(a, WideNat(d))>> :
                      a \in starts, d \in 1..MaxBucketGap } :
           WideLess(ab[2], WidePow(base, timestampLength)) }

\* Go encodeTimestamp applied to two buckets
GoEncode ==
    /\ impl = "go"
    /\ fnRet = NoRet
    /\ \E ab \in BucketPairs(g.base, g.timestampLength) :
         fnRet' = [kind |-> "encode", a |-> ab[1], b |-> ab[2],
                   outA |-> encodeTimestamp(g, ab[1]),
                   outB |-> encodeTimestamp(g, ab[2])]
    /\ UNCHANGED <<impl, now, issued, decRet, cfgIn, newRet, burst, asg, calls,
                   goVars, tsVars>>

\* TypeScript encodeTimestamp applied to two buckets, each as the timespan
\* of its first millisecond
TsEncode ==
    /\ impl = "ts"
    /\ fnRet = NoRet
    /\ \E ab \in WideBucketPairs(tsg.base, tsg.timestampLength) :
         LET unit == LEVEL_TO_MS(tsg.timestampLevel)
         IN fnRet' = [kind |-> "encode", a |-> ab[1], b |-> ab[2],
                      outA |-> [panic |-> FALSE,
                                s |-> Ts_encodeTimestamp(
                                          tsg,
                                          Ts_getTimespan(
                                              tsg, WideMul(ab[1], unit)).timespan)],
                      outB |-> [panic |-> FALSE,
                                s |-> Ts_encodeTimestamp(
                                          tsg,
                                          Ts_getTimespan(
                                              tsg, WideMul(ab[2], unit)).timespan)]]
    /\ UNCHANGED <<impl, now, issued, decRet, cfgIn, newRet, burst, asg, calls,
                   goVars, tsVars>>

NextCodec ==
    \/ GoEncode
    \/ TsEncode

\* The configurations the encoders are taken from: alphabets "10" (64
\* buckets), "cab" (81 buckets) and "a" with e-acute in Go, "cab" (3^21
\* buckets) and "3102" (4^22 buckets) in TypeScript
GoCodecConfigs ==
    { GoConfig(<<49, 48>>, 9, 40, "nanosecond", "1_per_second"),
      GoConfig(<<99, 97, 98>>, 7, 50, "nanosecond", "1_per_second"),
      GoConfig(<<97, 233>>, 3, 2, "nanosecond", "100_per_second") }

TsCodecConfigs ==
    { TsConfig(<<99, 97, 98>>, 23, "second", "1_per_second", <<>>),
      TsConfig(<<51, 49, 48, 50>>, 24, "millisecond", "1_per_second", <<>>) }

InitCodec == InitGoOf(GoCodecConfigs) \/ InitTsOf(TsCodecConfigs)

SpecCodec == InitCodec /\ [][NextCodec]_vars

(***************************************************************************)
(* TypeScript: the timestamp width of constructed generators, and          *)
(* encodeTimestamp at the instants generate() accepts.                     *)
(***************************************************************************)
\* Async configurations with a timestampEnd, with a timestampLength, with
\* neither (the width is 11), and with a timestampEnd 2^50 + 1 ms after
\* timestampStart
AsRangeConfigs ==
    AsEndConfigs
    \cup { AsConfig(<<48, 49>>, 5, 3, level) : level \in {"millisecond", "second"} }
    \cup { AsConfig(<<50, 48, 49>>, 12, 0, "millisecond") }
    \cup { [alphabet |-> <<48, 49>>, totalLength |-> 64,
            timestampStart |-> DateOf(2024, 0, 1),
            timestampEnd |-> WideAdd(DateOf(2024, 0, 1),
                                     WideAdd(TwoTo[50], <<1>>)),
            timestampLength |-> 0, timestampLevel |-> "millisecond"] }

InitRange ==
    \/ InitAsOf(AsRangeConfigs)
    \/ InitTsOf(TsGenConfigs \cup TsCodecConfigs)

\* The first instant, the first millisecond of the second bucket (of a
\* later one where the unit is below a millisecond), and the last
\* millisecond before and the first at or after maxTimestamp, in
\* milliseconds after timestampStart
RangeInstants(maxMs, unit) ==
    { <<0>>, IF unit.den = <<1>> THEN unit.num ELSE <<1>>,
      WideDiff(maxMs, <<1>>), maxMs }

\* encodeTimestamp as the async generate() calls it, at an instant it accepts
\* whose bucket is not lastTimeSpan
AsEncodeAccepted ==
    /\ impl = "async"
    /\ fnRet = NoRet
    /\ \E nowMs \in RangeInstants(AsRangeMs(asg),
                                  As_LEVEL_TO_MS[asg.timestampLevel]) :
         \E t \in {As_getTimespan(asg, nowMs)} :
            /\ t.err = NoErr
            /\ FracLess(t.timespan, asg.maxTimestamp)
            /\ t.timespan # asg.lastTimeSpan
            /\ fnRet' = [kind |-> "accepted", at |-> nowMs,
                         out |-> Ts_encodeTimestamp(asg, t.timespan)]
    /\ UNCHANGED <<impl, now, issued, decRet, cfgIn, newRet, burst, asg, calls,
                   goVars, tsVars>>

\* encodeTimestamp as the sync generate() calls it, at an instant it accepts
\* whose bucket is not lastTimeSpan
TsEncodeAccepted ==
    /\ impl = "ts"
    /\ fnRet = NoRet
    /\ \E nowMs \in RangeInstants(
                         TsRangeMs(tsg),
                         Frac(LEVEL_TO_MS(tsg.timestampLevel), <<1>>)) :
         \E t \in {Ts_getTimespan(tsg, nowMs)} :
            /\ t.err = NoErr
            /\ FracLess(t.timespan, tsg.maxTimestamp)
            /\ t.timespan # tsg.lastTimeSpan
            /\ fnRet' = [kind |-> "accepted", at |-> nowMs,
                         out |-> Ts_encodeTimestamp(tsg, t.timespan)]
    /\ UNCHANGED <<impl, now, issued, decRet, cfgIn, newRet, burst, asg, calls,
                   goVars, tsVars>>

NextRange ==
    \/ AsEncodeAccepted
    \/ TsEncodeAccepted

SpecRange == InitRange /\ [][NextRange]_vars

(***************************************************************************)
(* Both generators under a clock that may step backward (the wall clock    *)
(* is set back between two calls).                                         *)
(***************************************************************************)
\* the clock read by time.Now() steps back to an earlier instant
GoClockBack ==
    /\ impl = "go"
    /\ \E t \in GoClockValues(g) :
         /\ t < now
         /\ now' = t
    /\ decRet' = NoRet
    /\ UNCHANGED <<impl, g, mu, pc, ret, issued, cfgIn, newRet, tsVars, restVars>>

\* the clock read by new Date() steps back to an earlier instant
TsClockBack ==
    /\ impl = "ts"
    /\ \E t \in TsClockValues(tsg) :
         /\ WideLt(t, now)
         /\ now' = t
    /\ decRet' = NoRet
    /\ UNCHANGED <<impl, tsg, tsRet, tsIssued, tsThrown, issued, cfgIn, newRet,
                   goVars, restVars>>

NextSkew ==
    \/ Next
    \/ GoClockBack
    \/ TsClockBack

\* The configurations run under such a clock: alphabet "10" in both
SkewConfigs ==
    { GoConfig(<<49, 48>>, 4, 3, "nanosecond", "1_per_second"),
      TsConfig(<<49, 48>>, 45, "millisecond", "1_per_second", <<>>) }

InitSkew == Init /\ cfgIn \in SkewConfigs

SpecSkew == InitSkew /\ [][NextSkew]_vars

(***************************************************************************)
(* The claims.                                                             *)
(***************************************************************************)
\* A Generate call of goroutine p returns to its caller
GoReturns(p) == impl = "go" /\ pc[p] = "body" /\ pc'[p] = "unlock"

\* C1: Go Generator, goroutines calling Generate concurrently on one
\* Generator under a clock that never steps backward: each identifier a
\* successful call returns is strictly greater, lexicographically, than the
\* identifier returned by the successful call that held the lock before it
\* (so the identifiers are pairwise distinct).
C1_StrictlyIncreasingInLockOrder ==
    [][\A p \in Procs :
          (GoReturns(p) /\ ret'[p].kind = "ok" /\ issued # <<>>)
              => StrLess(issued, ret'[p].id)]_vars

\* C2: chrono-based TypeScript generator at millisecond granularity, clock
\* never stepping backward: each identifier generate() returns is greater
\* than or equal to the identifier returned before it, for any number of
\* calls inside one bucket, also after the chrono field reached its maximum.
C2_NonDecreasing ==
    [][(impl = "ts" /\ tsg.timestampLevel = "millisecond" /\ issued # <<>>)
          => StrLessEq(issued, issued')]_vars

\* C3: chrono-based TypeScript generator: once generate() has thrown
\* 'Generation rate exceeded' in a bucket, no later generate() call in that
\* bucket returns an identifier that was already returned in it.
C3_NoDuplicateAfterRateExceeded ==
    [][(impl = "ts" /\ tsThrown /\ tsThrown' /\ tsRet' # tsRet
            /\ tsRet'.kind = "ok")
          => tsRet'.id \notin tsIssued]_vars

\* C4: chrono-based TypeScript generator: every identifier generate()
\* returns, the first call on a fresh instance included and in every bucket
\* of [0, maxTimestamp), has exactly totalLength symbols.
C4_FixedLength ==
    (impl = "ts" /\ tsRet.kind = "ok") => Len(tsRet.id) = tsg.totalLength

\* C5: Go Generator: every symbol of every identifier Generate returns
\* belongs to the configured alphabet, on the new-bucket path, the chrono
\* increment path and the chrono+suffix increment path, whatever bytes the
\* random pool yields.
C5_AlphabetClosure ==
    impl = "go" =>
        \A p \in Procs :
            ret[p].kind = "ok" =>
                Symbols(Runes(ret[p].id)) \subseteq Symbols(Runes(g.alphabet))

\* C6: decode(id) succeeds if and only if id has exactly totalLength
\* symbols, every one of them in the generator's alphabet; otherwise it
\* fails with an error and returns no decoded value.
C6_DecodeAcceptsExactlyWellFormed ==
    decRet.kind = "decode" =>
        LET symbols == IF impl = "go" THEN Runes(decRet.id) ELSE decRet.id
            alphabet == IF impl = "go" THEN Runes(g.alphabet) ELSE tsg.alphabet
            totalLength == IF impl = "go" THEN g.totalLength ELSE tsg.totalLength
            wellFormed == /\ Len(symbols) = totalLength
                          /\ Symbols(symbols) \subseteq Symbols(alphabet)
        IN /\ decRet.r.err = NoErr <=> wellFormed
           /\ decRet.r.err # NoErr =>
                  /\ decRet.r.chronoPart = <<>>
                  /\ IF impl = "go"
                     THEN decRet.r.date = <<>> /\ decRet.r.randomPart = <<>>
                     ELSE decRet.r.timestamp = <<>> /\ decRet.r.machineId = <<>>

\* C7: decode is pure: whether it succeeds or fails, a decode call leaves
\* the last-issued bucket, the last-issued identifier and the last-issued
\* chrono field unchanged, and decoding the same string again gives the same
\* result.
C7_DecodeIsPure ==
    [][decRet'.kind = "decode" =>
          /\ impl = "go" =>
                 /\ g'.lastTimeSpan = g.lastTimeSpan
                 /\ g'.lastID = g.lastID
                 /\ g'.lastChronoPart = g.lastChronoPart
          /\ impl = "ts" =>
                 /\ tsg'.lastTimeSpan = tsg.lastTimeSpan
                 /\ tsg'.lastId = tsg.lastId
                 /\ tsg'.lastChronoPart = tsg.lastChronoPart
          /\ issued' = issued
          /\ (decRet.kind = "decode" /\ decRet'.id = decRet.id)
                 => decRet'.r = decRet.r]_vars

\* A Decode call succeeded on the last issued identifier while another
\* goroutine was inside Generate
C7_Witness ==
    /\ impl = "go"
    /\ decRet.kind = "decode"
    /\ decRet.r.err = NoErr
    /\ decRet.id = issued
    /\ \E p \in Procs : pc[p] = "body"

\* C8: round trip (TypeScript): for every identifier generate() returned in
\* bucket b, 0 <= b < maxTimestamp, decode(id) succeeds, its instant is
\* timestampStart + b * granularity, and the timestamp field, the returned
\* chrono part and the returned suffix concatenate to id.
C8_RoundTrip ==
    (impl = "ts" /\ tsRet.kind = "ok") =>
        LET d == Ts_decode(tsg, tsRet.id)
            unit == LEVEL_TO_MS(tsg.timestampLevel)
        IN /\ d.err = NoErr
           /\ d.timestamp = <<WideMul(WideDivMod(tsRet.at, unit).q, unit)>>
           /\ JsSlice(tsRet.id, 0, tsg.timestampLength) \o d.chronoPart
                  \o d.machineId = tsRet.id

\* Whether an instant t is at or beyond timestampStart + maxTimestamp units:
\* t >= maxTimestamp * LEVEL_TO_MS[level]
TsAtLimit(gen, t) ==
    /\ t[1] >= 0
    /\ WideLe(WideMul(gen.maxTimestamp.num, LEVEL_TO_MS(gen.timestampLevel)),
              WideMul(t, gen.maxTimestamp.den))

\* C9: generate fails with the timestamp-exhausted error exactly when the
\* current bucket is at or beyond maxTimestamp, that is when the clock is at
\* or beyond timestampStart + maxTimestamp * granularity; such a call leaves
\* the generator as it was (the check precedes the same-bucket/new-bucket
\* decision), every such call fails, and no identifier is returned then.
C9_TimestampExhausted ==
    [][/\ impl = "go" =>
             LET limit == g.maxTimestamp * getTimestampDuration(g.timestampLevel)
             IN /\ \A p \in Procs :
                      ret'[p].kind # "none" =>
                          /\ (ret'[p].kind = "err" /\ ret'[p].err = ErrTimestamp)
                                 <=> ret'[p].at >= limit
                          /\ ret'[p].kind = "ok" => ret'[p].at < limit
                /\ now >= limit => g' = g
       /\ impl = "ts" =>
             /\ tsRet'.kind # "none" =>
                    /\ (tsRet'.kind = "err" /\ tsRet'.err = TsErrTimestamp)
                           <=> TsAtLimit(tsg, tsRet'.at)
                    /\ tsRet'.kind = "ok" => ~TsAtLimit(tsg, tsRet'.at)
             /\ TsAtLimit(tsg, now) => tsg' = tsg]_vars

\* A Generate call failed with the timestamp-exhausted error after
\* identifiers had been issued
C9_Witness ==
    /\ impl = "go"
    /\ issued # <<>>
    /\ \E p \in Procs :
          /\ ret[p].kind = "err"
          /\ ret[p].err = ErrTimestamp
          /\ ret[p].at >= g.maxTimestamp * getTimestampDuration(g.timestampLevel)

\* C10: Go New returns an error and a nil generator when the alphabet has
\* fewer than 2 symbols, a duplicate symbol or more than 255 symbols, when
\* TimestampEnd precedes TimestampStart, or when totalLength is below
\* timestampLength + chronoLength + 1; every constructed generator has a
\* suffix of at least one symbol; an empty alphabet stands for the default
\* alphabet and is no error.
C10_NewRejectsBadConfig ==
    (impl = "new" /\ newRet # NoRet) =>
        LET alphabet == IF cfgIn.Alphabet = <<>> THEN DefaultConfig.Alphabet
                        ELSE cfgIn.Alphabet
            totalLength == IF cfgIn.TotalLength = 0 THEN DefaultConfig.TotalLength
                           ELSE cfgIn.TotalLength
            level == IF cfgIn.TimestampLevel = ""
                     THEN DefaultConfig.TimestampLevel ELSE cfgIn.TimestampLevel
            rate == IF cfgIn.MaxSortableRate = ""
                    THEN DefaultConfig.MaxSortableRate ELSE cfgIn.MaxSortableRate
            badAlphabet ==
                \/ Len(alphabet) < 2
                \/ Len(alphabet) > 255
                \/ \E i, j \in 1..Len(alphabet) : i < j /\ alphabet[i] = alphabet[j]
            badRange == cfgIn.TimestampEnd # <<>> /\ cfgIn.TimestampEnd[1] < 0
            duration == IF cfgIn.TimestampEnd = <<>> THEN MaxDuration
                        ELSE WideNat(cfgIn.TimestampEnd[1])
            tooShort ==
                totalLength <
                    calculateTimestampLength(Len(alphabet), duration, level)
                    + calculateChronoLength(Len(alphabet), rate, level) + 1
        IN /\ (badAlphabet \/ badRange \/ (~badAlphabet /\ ~badRange /\ tooShort))
                  => newRet.err # NoErr
           /\ newRet.err # NoErr <=> newRet.g = <<>>
           /\ newRet.g # <<>> =>
                  newRet.g[1].totalLength - newRet.g[1].timestampLength
                      - newRet.g[1].chronoLength >= 1
           /\ cfgIn.Alphabet = <<>> =>
                  newRet.err \notin { ErrAlphabetShort, ErrAlphabetDup,
                                      ErrAlphabetLong }

\* C11: Go Generator burst capacity: the first base^chronoLength identifiers
\* returned inside one time bucket, the first of them by the call that
\* entered the bucket, share one timestamp field, and their chrono fields
\* start at the all-minimum field and are strictly increasing (so pairwise
\* distinct).
C11_BurstCapacity ==
    (impl = "go" /\ burst.entered) =>
        LET ts(i) == SubSeq(burst.ids[i], 1, g.timestampLength)
            chrono(i) == SubSeq(burst.ids[i], g.timestampLength + 1,
                                Len(burst.ids[i]))
            minSymbol == SetMin(Symbols(Runes(g.alphabet)))
        IN /\ chrono(1) = Utf8(Repeat(minSymbol, g.chronoLength))
           /\ \A i \in 1..Len(burst.ids) : ts(i) = ts(1)
           /\ \A i, j \in 1..Len(burst.ids) :
                 i < j => StrLess(chrono(i), chrono(j))

\* The symbols of the generator's alphabet, sorted (Go: its runes)
SortedSymbols ==
    IF impl = "go" THEN sortAlphabet(cfgIn.Alphabet)
    ELSE sortAlphabet(cfgIn.alphabet)

\* The base-N value of the field s over the sorted alphabet
RECURSIVE FieldValue(_, _)
FieldValue(alphabet, s) ==
    IF s = <<>> THEN 0
    ELSE FieldValue(alphabet, SubSeq(s, 1, Len(s) - 1)) * Len(alphabet)
         + IndexOf(alphabet, s[Len(s)])

AllMax(alphabet, s) == \A i \in 1..Len(s) : s[i] = alphabet[Len(alphabet)]

AllMin(alphabet, s) == \A i \in 1..Len(s) : s[i] = alphabet[1]

\* C12: for every field s over the sorted alphabet that is not all-maximum,
\* the increment operation (Go incrementSymbols, TypeScript
\* incrementStringPart and incrementRandomPart) returns the field of the
\* same length over the alphabet whose base-N value is value(s) + 1.
C12_OdometerSuccessor ==
    (fnRet.kind = "increment" /\ ~AllMax(SortedSymbols, fnRet.in)) =>
        /\ Len(fnRet.out) = Len(fnRet.in)
        /\ Symbols(fnRet.out) \subseteq Symbols(SortedSymbols)
        /\ FieldValue(SortedSymbols, fnRet.out)
               = FieldValue(SortedSymbols, fnRet.in) + 1

\* C13: in the async TypeScript generator, the runs of generate() that read
\* the same clock instant and returned an identifier returned identifiers
\* with the same timestamp field, strictly increasing (hence distinct) in
\* the order the runs were made.
C13_SameInstantIncreasing ==
    impl = "async" =>
        \A i, j \in 1..Len(calls) :
            (/\ calls[i].pc = "done"
             /\ calls[j].pc = "done"
             /\ calls[i].at = calls[j].at
             /\ calls[i].seq < calls[j].seq) =>
                /\ JsSlice(calls[i].id, 0, asg.timestampLength)
                      = JsSlice(calls[j].id, 0, asg.timestampLength)
                /\ StrLess(calls[i].id, calls[j].id)

\* three runs returned at one instant, the second of them after its 1 ms wait
C13_Witness ==
    /\ impl = "async"
    /\ \E i, j, k \in 1..Len(calls) :
          /\ calls[i].pc = "done" /\ calls[j].pc = "done" /\ calls[k].pc = "done"
          /\ calls[i].at = calls[j].at /\ calls[j].at = calls[k].at
          /\ calls[i].seq < calls[j].seq /\ calls[j].seq < calls[k].seq
          /\ calls[j].waits > 0

\* C14: in the async TypeScript generator, of two generate() calls started
\* one after the other with no timer callback run between their starts (the
\* calls of one Promise.all), the call started first resolves to the
\* smaller identifier, also when a call waited 1 ms after an overflow of
\* the random part.
C14_StartOrder ==
    impl = "async" =>
        \A i, j \in 1..Len(calls) :
            (/\ i < j
             /\ calls[i].block = calls[j].block
             /\ calls[i].pc = "done"
             /\ calls[j].pc = "done") =>
                StrLess(calls[i].id, calls[j].id)

\* The goroutines between g.mu.Lock() and the return of Generate
InsideGenerate == { p \in Procs : pc[p] \in {"body", "unlock"} }

\* C15: in the Go generator the mutex is held by exactly the call that is
\* between Lock() and its return, whatever the call returns; the generator
\* state changes only under the lock; at most one call is inside; and under
\* fair scheduling every call that waits for the lock acquires it and
\* returns.
C15_LockDiscipline ==
    /\ [](impl = "go" =>
            /\ Cardinality(InsideGenerate) <= 1
            /\ \A p \in Procs : p \in InsideGenerate <=> mu = p)
    /\ [][impl = "go" /\ g' # g => mu # 0 /\ pc[mu] = "body"]_vars
    /\ \A p \in Procs :
          (impl = "go" /\ pc[p] = "lock") ~> (pc[p] = "idle" /\ mu # p)

\* a call is about to return an error while another waits for the lock
C15_Witness ==
    /\ impl = "go"
    /\ \E p, q \in Procs :
          /\ pc[p] = "unlock" /\ mu = p /\ ret[p].kind = "err"
          /\ pc[q] = "lock"

\* C16: getMaxDate() of a generator configured with a timestampEnd (and no
\* timestampLength) is timestampEnd; of a generator configured with a
\* timestampLength it is timestampStart + base^timestampLength units, or
\* the last Date (8640000000000000 ms) when that is later.
C16_MaxDate ==
    fnRet.kind = "getMaxDate" =>
        LET unit == As_LEVEL_TO_MS[asg.timestampLevel]
            units == WidePow(asg.base, asg.timestampLength)
            sum == WideAdd(asg.timestampStart,
                           WideDivMod(WideMul(units, unit.num), unit.den).q)
        IN IF cfgIn.timestampLength = 0 /\ cfgIn.timestampEnd # <<>>
           THEN fnRet.out = cfgIn.timestampEnd
           ELSE IF WideLess(MAX_JS_DATE, sum) THEN fnRet.out = MAX_JS_DATE
           ELSE fnRet.out = sum

\* C17: for a field of one symbol or more over the sorted alphabet, the
\* increment operation returns a string of minimum symbols only (the
\* overflow sentinel) if and only if every symbol of the field is the
\* maximum symbol.
C17_OverflowSound ==
    (fnRet.kind = "increment" /\ Len(fnRet.in) >= 1) =>
        (AllMin(SortedSymbols, fnRet.out) <=> AllMax(SortedSymbols, fnRet.in))

\* The bucket of an instant t >= 0 of the chrono-based TypeScript generator:
\* the whole units from timestampStart to it
TsBucket(gen, t) == WideDivMod(t, LEVEL_TO_MS(gen.timestampLevel)).q

\* C18: a generate call that reads a bucket lower than the bucket of the
\* last identifier issued does not take the new-bucket action (the
\* generator stays in its bucket) and does not return an identifier smaller
\* than the last identifier issued.
C18_ClockRegression ==
    [][/\ \A p \in Procs :
             (/\ GoReturns(p)
              /\ issued # <<>>
              /\ getTimespan(g, now) < g.lastTimeSpan) =>
                 /\ g'.lastTimeSpan = g.lastTimeSpan
                 /\ ret'[p].kind = "ok" => ~StrLess(ret'[p].id, issued)
       /\ (/\ impl = "ts"
           /\ tsRet' # tsRet
           /\ issued # <<>>
           /\ \/ now[1] < 0
              \/ WideLess(TsBucket(tsg, now), FracFloor(tsg.lastTimeSpan))) =>
              /\ tsg'.lastTimeSpan = tsg.lastTimeSpan
              /\ tsRet'.kind = "ok" => ~StrLess(tsRet'.id, issued)]_vars

\* C19: chrono-based TypeScript generator, at every timestampLevel: a
\* generate() call whose instant falls in the bucket (the whole number of
\* units since timestampStart) of the call before it, which returned an
\* identifier, is treated as a same-bucket call: it returns, or throws, what
\* the same-bucket branch makes of the previous identifier, whatever the
\* random suffix drawn.
C19_SameBucketByFloor ==
    [][(/\ impl = "ts"
        /\ tsRet.kind = "ok"
        /\ tsRet' # tsRet
        /\ now[1] >= 0
        /\ TsBucket(tsg, now) = TsBucket(tsg, tsRet.at)) =>
           LET r == Ts_generateSameTimespan(tsg, tsg.lastTimeSpan)
           IN /\ tsRet'.kind = r.kind
              /\ tsRet'.id = r.id
              /\ tsRet'.err = r.err]_vars

\* C20: Go generator, a Generate call in the bucket of the last identifier
\* issued whose chrono increment does not overflow: the identifier returned
\* has the timestamp field and the suffix field of the last identifier
\* issued, and the successor of its chrono field.
C20_ChronoOnlyChanges ==
    [][\A p \in Procs :
          LET last == IF g.lastChronoPart = <<>>
                      THEN GoRepeat(g.alphabet[1], g.chronoLength)
                      ELSE g.lastChronoPart
              chronoPart == incrementSymbols(g, last)
              chronoEnd == g.timestampLength + g.chronoLength
          IN (/\ GoReturns(p)
              /\ issued # <<>>
              /\ getTimespan(g, now) = g.lastTimeSpan
              /\ chronoPart # g.overflowedChrono
              /\ ret'[p].kind = "ok") =>
                 /\ GoSlice(ret'[p].id, 0, g.timestampLength)
                       = GoSlice(issued, 0, g.timestampLength)
                 /\ GoSlice(ret'[p].id, g.timestampLength, chronoEnd)
                       = chronoPart
                 /\ GoSlice(ret'[p].id, chronoEnd, Len(ret'[p].id))
                       = GoSlice(issued, chronoEnd, Len(issued))]_vars

\* The chrono field and the suffix field of the last identifier issued by
\* the Go generator, as symbols
LastChrono ==
    Runes(GoSlice(issued, g.timestampLength,
                  g.timestampLength + g.chronoLength))

LastSuffix ==
    Runes(GoSlice(issued, g.timestampLength + g.chronoLength, Len(issued)))

\* The Go generator is asked for an identifier in the bucket of the last
\* identifier it issued
GoSameBucket ==
    /\ impl = "go"
    /\ issued # <<>>
    /\ getTimespan(g, now) = g.lastTimeSpan
    /\ getTimespan(g, now) < g.maxTimestamp

\* C21: Go generator, a Generate call in the bucket of the last identifier
\* issued, whose chrono field is all-maximum and whose suffix is not:
\* the call returns the last identifier with the same timestamp field, the
\* same chrono field and the suffix of value one higher.
C21_CombinedCascade ==
    [][\A p \in Procs :
          (/\ GoReturns(p)
           /\ GoSameBucket
           /\ AllMax(SortedSymbols, LastChrono)
           /\ ~AllMax(SortedSymbols, LastSuffix)) =>
              LET chronoEnd == g.timestampLength + g.chronoLength
                  suffix == Runes(GoSlice(ret'[p].id, chronoEnd,
                                          Len(ret'[p].id)))
              IN /\ ret'[p].kind = "ok"
                 /\ GoSlice(ret'[p].id, 0, chronoEnd)
                       = GoSlice(issued, 0, chronoEnd)
                 /\ Len(suffix) = Len(LastSuffix)
                 /\ Symbols(suffix) \subseteq Symbols(SortedSymbols)
                 /\ FieldValue(SortedSymbols, suffix)
                       = FieldValue(SortedSymbols, LastSuffix) + 1]_vars

\* a call has returned an identifier without drawing a random symbol, so by
\* the combined cascade, and the chrono field is all-maximum
C21_Witness ==
    /\ impl = "go"
    /\ \E p \in Procs :
          LET chronoEnd == g.timestampLength + g.chronoLength
          IN /\ pc[p] = "unlock"
             /\ ret[p].kind = "ok"
             /\ ret[p].k = 0
             /\ Len(ret[p].id) > chronoEnd
             /\ AllMax(SortedSymbols,
                       Runes(GoSlice(ret[p].id, g.timestampLength, chronoEnd)))
             /\ FieldValue(SortedSymbols,
                           Runes(GoSlice(ret[p].id, chronoEnd,
                                         Len(ret[p].id)))) > 0

\* C22: Go generator: a Generate call returns the rate-exceeded error
\* exactly when it is made in the bucket of the last identifier issued,
\* below maxTimestamp, and both the chrono field and the suffix field of
\* that identifier are all-maximum; every other call in the bucket of the
\* last identifier issued returns an identifier.
C22_RateExceededIff ==
    [][\A p \in Procs :
          GoReturns(p) =>
              LET exhausted == /\ GoSameBucket
                               /\ AllMax(SortedSymbols, LastChrono)
                               /\ AllMax(SortedSymbols, LastSuffix)
              IN /\ (ret'[p].kind = "err" /\ ret'[p].err = ErrRate)
                       <=> exhausted
                 /\ (GoSameBucket /\ ~exhausted) => ret'[p].kind = "ok"]_vars

\* a call has returned the rate-exceeded error
C22_Witness ==
    /\ impl = "go"
    /\ \E p \in Procs :
          /\ pc[p] = "unlock"
          /\ ret[p].kind = "err"
          /\ ret[p].err = ErrRate

\* C23: Go generator: a Generate call that returns an error leaves
\* lastTimeSpan, lastID and lastChronoPart as they were; after it, a call in
\* the same bucket fails again and a call in a later bucket below
\* maxTimestamp returns an identifier, whatever the random pool yields.
C23_ErrorLeavesState ==
    [][\A p \in Procs :
          (GoReturns(p) /\ ret'[p].kind = "err") =>
              /\ g'.lastTimeSpan = g.lastTimeSpan
              /\ g'.lastID = g.lastID
              /\ g'.lastChronoPart = g.lastChronoPart
              /\ \A bytes \in ByteStreams :
                    Generate(g', now, bytes).kind = "err"
              /\ \A t \in GoClockValues(g), bytes \in ByteStreams :
                    (/\ getTimespan(g, t) > getTimespan(g, now)
                     /\ getTimespan(g, t) > g.lastTimeSpan
                     /\ getTimespan(g, t) >= 0
                     /\ getTimespan(g, t) < g.maxTimestamp) =>
                        Generate(g', t, bytes).kind \in {"ok", "starved"}]_vars

\* a call has returned the rate-exceeded error while a later bucket below
\* maxTimestamp remains
C23_Witness ==
    /\ impl = "go"
    /\ \E p \in Procs :
          /\ pc[p] = "unlock"
          /\ ret[p].kind = "err"
          /\ ret[p].err = ErrRate
          /\ g.lastID # <<>>
          /\ getTimespan(g, now) >= 0
          /\ getTimespan(g, now) + 1 < g.maxTimestamp

\* C24: Go generator: the first Generate call on a freshly constructed
\* generator, in any bucket b with 0 <= b < maxTimestamp (b = 0 included),
\* takes the new-bucket path (the chrono part is reset to its minimum) and
\* returns an identifier of totalLength symbols.
C24_FirstCall ==
    [][\A p \in Procs :
          (/\ GoReturns(p)
           /\ g = newRet.g[1]
           /\ getTimespan(g, now) >= 0
           /\ getTimespan(g, now) < g.maxTimestamp) =>
              /\ ret'[p].kind = "ok"
              /\ Len(Runes(ret'[p].id)) = g.totalLength
              /\ g'.lastChronoPart = g.overflowedChrono
              /\ g'.lastTimeSpan = getTimespan(g, now)]_vars

\* C25: Go generator: a Generate call made when the clock is before
\* TimestampStart returns an error, and the generator keeps the bucket it
\* had (no negative bucket is encoded or recorded).
C25_BeforeStartIsError ==
    [][\A p \in Procs :
          (GoReturns(p) /\ now < 0) =>
              /\ ret'[p].kind = "err"
              /\ g'.lastTimeSpan = g.lastTimeSpan]_vars

\* The value of a field in the base of the alphabet, as a wide number
RECURSIVE WideFieldValue(_, _)
WideFieldValue(alphabet, s) ==
    IF s = <<>> THEN <<0>>
    ELSE WideAdd(WideTimes(WideFieldValue(alphabet, SubSeq(s, 1, Len(s) - 1)),
                           Len(alphabet)),
                 <<IndexOf(alphabet, s[Len(s)])>>)

\* A bucket as a wide number, whether it was handed over as an integer (Go)
\* or as a wide number
Wide(b) == IF impl = "go" THEN WideNat(b) ELSE b

\* The symbols of an encoded timestamp
Encoded(out) == IF impl = "go" THEN Runes(out.s) ELSE out.s

\* C26: for buckets 0 <= a < b < base^timestampLength, encodeTimestamp(a)
\* and encodeTimestamp(b) have timestampLength symbols of the sorted
\* alphabet, are the base-N digits of a and b behind a padding of
\* alphabet[0], and encodeTimestamp(a) is lexicographically smaller.
C26_CodecOrder ==
    fnRet.kind = "encode" =>
        LET timestampLength == IF impl = "go" THEN g.timestampLength
                               ELSE tsg.timestampLength
        IN /\ ~fnRet.outA.panic /\ ~fnRet.outB.panic
           /\ Len(Encoded(fnRet.outA)) = timestampLength
           /\ Len(Encoded(fnRet.outB)) = timestampLength
           /\ Symbols(Encoded(fnRet.outA)) \subseteq Symbols(SortedSymbols)
           /\ Symbols(Encoded(fnRet.outB)) \subseteq Symbols(SortedSymbols)
           /\ WideFieldValue(SortedSymbols, Encoded(fnRet.outA)) = Wide(fnRet.a)
           /\ WideFieldValue(SortedSymbols, Encoded(fnRet.outB)) = Wide(fnRet.b)
           /\ StrLess(fnRet.outA.s, fnRet.outB.s)

\* C27: Go calculateTimestampLength returns, for every base of two or more
\* and every count of units from the start to the end, the least width of
\* one or more whose power of the base exceeds the count
C27_TimestampLength ==
    fnRet.kind = "timestampLength" =>
        /\ fnRet.length >= 1
        /\ Pow(fnRet.base, fnRet.length) > fnRet.units
        /\ fnRet.length > 1 => Pow(fnRet.base, fnRet.length - 1) <= fnRet.units

\* C28: TypeScript calculateChronoLength returns the least width of one or
\* more whose power of the base exceeds totalIds, also where totalIds / base
\* is 2^31 or more; totalIds has Len(totalIds) digits in the base, so
\* base^w > totalIds exactly when w >= Len(totalIds)
C28_ChronoLength ==
    fnRet.kind = "chronoLength" =>
        /\ fnRet.length >= 1
        /\ fnRet.length >= Len(fnRet.totalIds)
        /\ fnRet.length > 1 => fnRet.length = Len(fnRet.totalIds)

\* num / den <= base^w, for a width w of either sign
WithinPower(num, den, base, w) ==
    IF w >= 0 THEN ~WideLess(WideMul(WidePow(base, w), den), num)
    ELSE ~WideLess(den, WideMul(num, WidePow(base, -w)))

\* C29: every constructed TypeScript generator has maxTimestamp <=
\* base^timestampLength, whether the width was given, derived from
\* timestampEnd or from the built-in range, and every bucket generate()
\* accepts is encoded into exactly timestampLength symbols
C29_WidthCoversRange ==
    /\ impl = "async" =>
           WithinPower(asg.maxTimestamp.num, asg.maxTimestamp.den,
                       asg.base, asg.timestampLength)
    /\ impl = "ts" =>
           WithinPower(tsg.maxTimestamp.num, tsg.maxTimestamp.den,
                       tsg.base, tsg.timestampLength)
    /\ fnRet.kind = "accepted" =>
           /\ fnRet.out # RangeError
           /\ Len(fnRet.out) = (IF impl = "async" THEN asg.timestampLength
                                ELSE tsg.timestampLength)

\* The calls that returned an identifier at the instant t
DoneAt(t) == { j \in 1..Len(calls) : calls[j].pc = "done" /\ calls[j].at = t }

\* C30: in the async generator the first symbol of a freshly drawn random
\* part is never the greatest symbol of the alphabet, so a call overflows in
\* a bucket that was entered only after the entering call and at least
\* base^(L-1) further calls returned identifiers there, L the length of the
\* random part
C30_FreshPartHeadroom ==
    /\ [](impl = "async" =>
            \A i \in 1..Len(calls) :
                (calls[i].pc = "wait" /\ DoneAt(calls[i].at) # {}) =>
                    Cardinality(DoneAt(calls[i].at)) >=
                        Pow(asg.base,
                            asg.totalLength - asg.timestampLength - 1) + 1)
    /\ [][impl = "async" /\ asg'.lastTimeSpan # asg.lastTimeSpan =>
              asg'.lastId[asg.timestampLength + 1] # asg.alphabet[asg.base]]_vars

\* a call overflowed in a bucket in which exactly base^(L-1) + 1 identifiers
\* were returned, the first of them with a freshly drawn random part
C30_Witness ==
    /\ impl = "async"
    /\ \E i \in 1..Len(calls) :
          /\ calls[i].pc = "wait"
          /\ Cardinality(DoneAt(calls[i].at)) =
                 Pow(asg.base, asg.totalLength - asg.timestampLength - 1) + 1

\* C31: the async generate() retries a bounded number of times after an
\* overflow and then fails with a rate error, so every call that waits
\* comes to an end, also while the clock stays in the exhausted bucket
C31_RetriesEnd ==
    \A i \in 1..MaxCalls :
        [](impl = "async" /\ i <= Len(calls) /\ calls[i].pc = "wait"
             => <>(i <= Len(calls) /\ calls[i].pc \in {"done", "err"}))

\* Call i overflowed in an earlier millisecond and is waiting for its timer,
\* and the clock has reached a later bucket below maxTimestamp
WaitsInLaterBucket(i) ==
    /\ impl = "async"
    /\ i <= Len(calls)
    /\ calls[i].pc = "wait"
    /\ WideLt(calls[i].at, now)
    /\ ~As_exceeds(asg, now)

\* Call i runs generate() in this step: it is started, or its timer fires
RunsGenerate(i) ==
    /\ impl = "async"
    /\ calls' # calls
    /\ IF Len(calls') > Len(calls) THEN i = Len(calls')
       ELSE i <= Len(calls) /\ calls[i].pc = "wait" /\ calls[i].ticket = 1

C33_DiagnosticsReadOnly ==
    [][fnRet'.kind = "info" /\ fnRet.kind # "info" =>
          /\ impl = "go" =>
                /\ g'.lastTimeSpan = g.lastTimeSpan
                /\ g'.lastID = g.lastID
                /\ g'.lastChronoPart = g.lastChronoPart
                /\ g'.poolOffset = g.poolOffset
                /\ g' = g
          /\ impl = "ts" =>
                /\ tsg'.lastTimeSpan = tsg.lastTimeSpan
                /\ tsg'.lastId = tsg.lastId
                /\ tsg'.lastChronoPart = tsg.lastChronoPart
                /\ tsg' = tsg]_vars

\* the diagnostic was called after an identifier was returned, and another
\* identifier was returned after it
C33_Witness ==
    /\ fnRet.kind = "info"
    /\ fnRet.last # <<>>
    /\ issued # fnRet.last

(***************************************************************************)
(* Go: the random pool with its contents (generator.go 347-371).  Here     *)
(* g carries charPool, and every refill is an outcome of rand.Read: the    *)
(* bytes it wrote, or its failure followed by the time-based fallback.     *)
(***************************************************************************)
\* The reads of charPool one call may make
MaxPoolReads == 2

\* The refills one call may need
MaxRefills == ((MaxPoolReads - 1) \div PoolSize) + 1

\* The outcomes of one fillCharPool: rand.Read succeeded and wrote `bytes`,
\* or it failed and position i of the pool was filled at an instant whose
\* UnixNano() % len(g.alphabet) is nanos[i]
Refills(gen) ==
    { [err |-> FALSE, bytes |-> b, nanos |-> <<>>] :
          b \in [1..gen.poolSize -> 0..MaxByte] } \cup
    { [err |-> TRUE, bytes |-> <<>>, nanos |-> n] :
          n \in [1..gen.poolSize -> 0..(Len(gen.alphabet) - 1)] }

RefillSeqs(gen) == UNION { [1..n -> Refills(gen)] : n \in 0..MaxRefills }

\* fillCharPool: the contents of charPool when it returns
fillCharPoolBytes(gen, refill) ==
    IF refill.err
    THEN [i \in 1..gen.poolSize |-> gen.alphabet[refill.nanos[i] + 1]]
    ELSE refill.bytes

\* The generator with its pool: New allocates charPool and fills it once
WithPool(gen, refill) ==
    [f \in DOMAIN gen \cup {"charPool"} |->
        IF f = "charPool" THEN fillCharPoolBytes(gen, refill) ELSE gen[f]]

\* One read of charPool by getRandomChar: the index read, the byte found
\* there, whether fillCharPool ran first and whether rand.Read failed in it,
\* whether the pool read holds fallback bytes, and the pool as the read
\* leaves it.  An index outside the pool is a runtime panic.
PoolRead(index, pool, refilled, failed, weak) ==
    [index |-> index,
     byte |-> IF index < Len(pool) THEN pool[index + 1] ELSE 0,
     panic |-> index >= Len(pool),
     refilled |-> refilled, failed |-> failed, weak |-> weak,
     charPool |-> pool]

\* getRandomChar that refills only once poolOffset is past len(g.charPool)
RECURSIVE PoolReads_RefillPastEnd(_, _, _, _, _, _)
PoolReads_RefillPastEnd(gen, pool, off, weak, refills, n) ==
    LET off1 == off + 1
        refill == off1 > Len(pool)
    IN IF n = 0 \/ (refill /\ refills = <<>>) THEN <<>>
       ELSE IF refill
       THEN <<PoolRead(fillCharPool(off1),
                       fillCharPoolBytes(gen, Head(refills)),
                       TRUE, Head(refills).err, Head(refills).err)>> \o
            PoolReads_RefillPastEnd(gen, fillCharPoolBytes(gen, Head(refills)),
                                    fillCharPool(off1), Head(refills).err,
                                    Tail(refills), n - 1)
       ELSE <<PoolRead(off1, pool, FALSE, FALSE, weak)>> \o
            PoolReads_RefillPastEnd(gen, pool, off1, weak, refills, n - 1)

\* The first n reads of charPool that successive getRandomChar calls (the
\* redraws included) make from offset `off`: g.poolOffset++, then
\* fillCharPool if g.poolOffset >= len(g.charPool), then
\* g.charPool[g.poolOffset].  The reads end early when `refills` is used up.
RECURSIVE PoolReads(_, _, _, _, _, _)
PoolReads(gen, pool, off, weak, refills, n) ==
    LET off1 == off + 1
        refill == off1 >= Len(pool)
    IN IF n = 0 \/ (refill /\ refills = <<>>) THEN <<>>
       ELSE IF refill
       THEN <<PoolRead(fillCharPool(off1),
                       fillCharPoolBytes(gen, Head(refills)),
                       TRUE, Head(refills).err, Head(refills).err)>> \o
            PoolReads(gen, fillCharPoolBytes(gen, Head(refills)),
                      fillCharPool(off1), Head(refills).err,
                      Tail(refills), n - 1)
       ELSE <<PoolRead(off1, pool, FALSE, FALSE, weak)>> \o
            PoolReads(gen, pool, off1, weak, refills, n - 1)

\* What the last Generate returned and what the pool did during it: the
\* reads it served, whether rand.Read failed in one of its refills, whether a
\* byte it served came from the fallback, and whether the pool now holds
\* fallback bytes
PoolRet(res, reads, weak) ==
    [kind |-> "pool",
     res |-> res,
     reads |-> [i \in 1..Len(reads) |->
                   [index |-> reads[i].index, refilled |-> reads[i].refilled]],
     failed |-> \E i \in 1..Len(reads) : reads[i].failed,
     fallback |-> \E i \in 1..Len(reads) : reads[i].weak,
     weak |-> weak]

\* What Generate returns to its caller
PoolOutcome(r, used) ==
    [kind |-> IF \E i \in 1..Len(used) : used[i].panic THEN "panic" ELSE r.kind,
     id |-> r.id, err |-> r.err]

\* The generator and the pool record after a Generate that ended as r
\* having made the reads `used`
AfterPoolGenerate(r, used) ==
    [g |-> [r.g EXCEPT !.charPool = IF used = <<>> THEN g.charPool
                                    ELSE used[Len(used)].charPool],
     fnRet |-> PoolRet(PoolOutcome(r, used), used,
                       IF used = <<>> THEN fnRet.weak
                       ELSE used[Len(used)].weak)]

\* Generate with the random bytes that `reads` serves; [ok |-> the reads
\* sufficed and the call used n refills, g, fnRet]
PoolGenerate(reads, n) ==
    Only({ IF r.kind = "starved" THEN [ok |-> FALSE]
           ELSE IF Cardinality({ i \in 1..r.k : reads[i].refilled }) # n
           THEN [ok |-> FALSE]
           ELSE [ok |-> TRUE] @@ AfterPoolGenerate(r, SubSeq(reads, 1, r.k)) :
           r \in {Generate(g, now, [i \in 1..Len(reads) |-> reads[i].byte])} })

\* a whole call of Generate, from g.mu.Lock() to the deferred g.mu.Unlock(),
\* its random bytes read from charPool
GoGeneratePool ==
    /\ impl = "go"
    /\ \E refills \in RefillSeqs(g) :
         \E out \in {PoolGenerate(PoolReads(g, g.charPool, g.poolOffset,
                                              fnRet.weak, refills,
                                              MaxPoolReads),
                                    Len(refills))} :
            /\ out.ok
            /\ g' = out.g
            /\ fnRet' = out.fnRet
            /\ issued' = IF out.fnRet.res.kind = "ok" THEN out.fnRet.res.id
                         ELSE issued
    /\ decRet' = NoRet
    /\ UNCHANGED <<impl, now, mu, pc, ret, cfgIn, newRet, tsVars, burst, asg,
                   calls>>

NextPool == GoTick \/ GoGeneratePool

\* Alphabet "10" (mask 3: the bytes ending in binary 10 and 11 are rejected)
\* and alphabet "cab" (mask 3: the bytes ending in binary 11 are rejected,
\* the fallback byte 'c' among them); one random symbol per identifier
PoolConfigs ==
    { GoConfig(<<49, 48>>, 4, 3, "nanosecond", "1_per_second"),
      GoConfig(<<99, 97, 98>>, 4, 3, "nanosecond", "1_per_second") }

\* New has filled the pool once; no Generate has run
InitPool ==
    /\ impl = "go"
    /\ cfgIn \in PoolConfigs
    /\ newRet = New(cfgIn)
    /\ \E refill \in Refills(newRet.g[1]) :
          /\ g = WithPool(newRet.g[1], refill)
          /\ fnRet = PoolRet(NoRet, <<>>, refill.err)
    /\ now = 0
    /\ mu = 0
    /\ pc = [p \in Procs |-> "idle"]
    /\ ret = [p \in Procs |-> NoRet]
    /\ issued = <<>>
    /\ decRet = NoRet
    /\ tsg = Nil
    /\ tsRet = NoRet
    /\ tsIssued = {}
    /\ tsThrown = FALSE
    /\ burst = NoBurst
    /\ asg = Nil
    /\ calls = <<>>

SpecPool == InitPool /\ [][NextPool]_vars

\* C34: a Generate call during which rand.Read failed in a refill, or which
\* read a byte of the fallback pool, does not return an identifier (the
\* generator has no field that records the failure, so an error result is
\* the only way to expose it)
C34_RandFailureExposed ==
    (impl = "go" /\ fnRet.kind = "pool" /\ fnRet.res.kind = "ok") =>
        ~(fnRet.failed \/ fnRet.fallback)

\* C35: Go generator: in every state reached after a Generate call has
\* returned an identifier, whatever calls succeeded or failed since, lastID
\* has exactly totalLength symbols, its first timestampLength positions hold
\* encodeTimestamp(lastTimeSpan) and the chronoLength positions after them
\* hold lastChronoPart
C35_LastIdConsistent ==
    (impl = "go" /\ issued # <<>>) =>
        /\ Len(Runes(g.lastID)) = g.totalLength
        /\ Len(g.lastID) >= g.timestampLength + g.chronoLength
        /\ ~encodeTimestamp(g, g.lastTimeSpan).panic
        /\ GoSlice(g.lastID, 0, g.timestampLength) =
               encodeTimestamp(g, g.lastTimeSpan).s
        /\ GoSlice(g.lastID, g.timestampLength,
                   g.timestampLength + g.chronoLength) = g.lastChronoPart

\* C36: every read of charPool by getRandomChar, the redraws included, is at
\* an index in [0, poolSize); the read that follows index poolSize - 1 is
\* preceded by a refill and is at index 0, every other read is at the next
\* index; and poolOffset is left at the index of the last read
C36_PoolIndexInRange ==
    impl = "go" /\ fnRet.kind = "pool" =>
        /\ Len(g.charPool) = g.poolSize
        /\ g.poolOffset \in 0..(g.poolSize - 1)
        /\ \A i \in 1..Len(fnRet.reads) :
              /\ fnRet.reads[i].index \in 0..(g.poolSize - 1)
              /\ fnRet.reads[i].refilled => fnRet.reads[i].index = 0
              /\ (i > 1 /\ ~fnRet.reads[i].refilled) =>
                     fnRet.reads[i].index = fnRet.reads[i - 1].index + 1
              /\ (i > 1 /\ fnRet.reads[i].refilled) =>
                     fnRet.reads[i - 1].index = g.poolSize - 1
        /\ fnRet.reads # <<>> =>
               g.poolOffset = fnRet.reads[Len(fnRet.reads)].index

\* a call returned an identifier after a rejected byte at the last index of
\* the pool, a refill, and a redraw at index 0
C36_Witness ==
    /\ impl = "go"
    /\ fnRet.kind = "pool"
    /\ fnRet.res.kind = "ok"
    /\ Len(fnRet.reads) >= 2
    /\ g.totalLength - g.timestampLength - g.chronoLength = 1
    /\ fnRet.reads[Len(fnRet.reads)].refilled

====
